---- MODULE Spec2Model ----
(***************************************************************************)
(* Model of the JTAG select-line controller of jtag-switch                 *)
(* (sw/jtag-switch/src/gpio/gpio_control.c).                               *)
(*                                                                         *)
(* The controller keeps three statics (select0_state, select1_state,       *)
(* initialized) behind one mutex and drives two GPIO pins.  Every call of  *)
(* a Zephyr GPIO driver function (gpio_is_ready_dt, gpio_pin_configure_dt, *)
(* gpio_pin_set_dt, gpio_pin_get_dt) is one step of the model, so that the *)
(* pin levels between two hardware calls of one gpio_control_set_select    *)
(* are states of the model.  The driver is the environment: each call      *)
(* returns success or a negative errno, chosen nondeterministically; a     *)
(* write or configure that fails leaves the pin as it was, and a read      *)
(* returns an error, 0 or 1, whatever the pin is driven to.                *)
(***************************************************************************)
EXTENDS Integers, Sequences, FiniteSets, TLC

\* Number of threads that call the controller concurrently.
NumThreads == 2

\* select_line arguments range over 0..MaxLine; 0 and 1 are the valid ones.
MaxLine == 2

\* errno values returned (negated) by the controller.
EINVAL == 22

ENODEV == 19

EIO == 5

Threads == 1..NumThreads

\* The thread that runs main(); it calls the controller during boot only.
MainThread == NumThreads + 1

Procs == Threads \cup {MainThread}

\* The two select lines (case 0 / case 1 of the switch statements).
Lines == {0, 1}

LineArgs == 0..MaxLine

VARIABLES
    select0_state,          \* static bool select0_state
    select1_state,          \* static bool select1_state
    initialized,            \* static bool initialized
    gpio_control_mutex,     \* 0 = unlocked, otherwise the owning thread
    CONFIG_GPIO_EMUL,       \* build option: readback verification skipped
    pin,                    \* level driven on each pin (TRUE = HIGH)
    pc,                     \* per thread: position in the code
    op,                     \* per thread: API function the caller invoked
    select_line,            \* per thread: argument select_line
    state,                  \* per thread: argument state of set_select
    state_null,             \* per thread: get_select called with state == NULL
    other_pin_cleared,      \* per thread: local of set_select
    original_other_state,   \* per thread: local of set_select
    ret,                    \* per thread: value returned / local ret
    current_state,          \* per thread: *state written by get_select
    out_written,            \* per thread: get_select has stored to *state
    exit_path,              \* per thread: which return statement was taken
    hwlog,                  \* driver calls issued under the current lock
    critical_logged,        \* LOG_ERR("CRITICAL: Rollback failed ...") issued
    pre,                    \* statics and pins when the lock was taken
    toggle_run,             \* history: toggles made with no call in between
    last_toggle,            \* history: a toggle that returned past a waiting one
    main_pc,                \* position of main(), "off" when main is not modelled
    boot_log,               \* controller calls of main() that have returned
    http,                   \* the request the HTTP server thread is handling
    request_offset          \* per handler: bytes held in its request_buffer

vars == <<select0_state, select1_state, initialized, gpio_control_mutex,
          CONFIG_GPIO_EMUL, pin, pc, op, select_line, state, state_null,
          other_pin_cleared, original_other_state, ret, current_state,
          out_written, exit_path, hwlog, critical_logged, pre, toggle_run,
          last_toggle, main_pc, boot_log, http, request_offset>>

statics == <<select0_state, select1_state, initialized>>

\* The state of main() and of the HTTP request handlers.
prog == <<main_pc, boot_log, http, request_offset>>

locals == <<select_line, state, state_null, other_pin_cleared,
            original_other_state, ret, current_state, out_written, exit_path>>

----------------------------------------------------------------------------
\* Helpers

\* other_line of the switch in gpio_control_set_select.
OtherLine(l) == 1 - l

\* *state_var / *other_state_var: the tracked state of a line.
Tracked(l) == IF l = 0 THEN select0_state ELSE select1_state

\* state ? 1 : 0
Level(b) == IF b THEN 1 ELSE 0

\* Values a GPIO write or configure call can return: 0 or a negative errno.
WriteResults == {0, -EIO}

\* Values gpio_pin_get_dt can return: a negative errno, 0 or 1.
ReadResults == {-EIO, 0, 1}

\* The statics and the pins, as recorded when the lock is taken.
Snapshot == [s0 |-> select0_state, s1 |-> select1_state,
             init |-> initialized, pin |-> pin]

NoSnapshot == [s0 |-> FALSE, s1 |-> FALSE, init |-> FALSE,
               pin |-> [l \in Lines |-> FALSE]]

PreTracked(l) == IF l = 0 THEN pre.s0 ELSE pre.s1

\* One driver call, as it is recorded in hwlog.
HwCall(call, l, v, r) == [call |-> call, line |-> l, val |-> v, res |-> r]

\* verify_gpio_state's result for a readback value (non-emulated build).
verify_gpio_state(actual, expected) ==
    IF actual < 0 THEN -EIO
    ELSE IF actual # expected THEN -EIO
    ELSE 0

\* The possible outcomes of verify_gpio_state(spec, expected, ...): its
\* result and the driver calls it adds.  With CONFIG_GPIO_EMUL it returns 0
\* and reads nothing.
VerifyOutcomes(l, expected) ==
    IF CONFIG_GPIO_EMUL
    THEN {[res |-> 0, log |-> hwlog]}
    ELSE {[res |-> verify_gpio_state(actual, expected),
           log |-> Append(hwlog, HwCall("gpio_pin_get_dt", l, expected, actual))]
          : actual \in ReadResults}

\* *state_var = v for line l.
SetTracked(l, v) ==
    /\ select0_state' = IF l = 0 THEN v ELSE select0_state
    /\ select1_state' = IF l = 1 THEN v ELSE select1_state

\* gpio_pin_set_dt(spec of line l, v) returning r.
PinSet(l, v, r) ==
    /\ pin' = IF r = 0 THEN [pin EXCEPT ![l] = v] ELSE pin
    /\ hwlog' = Append(hwlog, HwCall("gpio_pin_set_dt", l, Level(v), r))

\* gpio_pin_configure_dt(..., GPIO_OUTPUT_ACTIVE): the pin starts HIGH.
PinConfigure_Active(l, r) ==
    /\ pin' = IF r = 0 THEN [pin EXCEPT ![l] = TRUE] ELSE pin
    /\ hwlog' = Append(hwlog, HwCall("gpio_pin_configure_dt", l, 0, r))

\* gpio_pin_configure_dt(spec of line l, GPIO_OUTPUT_INACTIVE) returning r.
PinConfigure(l, r) ==
    /\ pin' = IF r = 0 THEN [pin EXCEPT ![l] = FALSE] ELSE pin
    /\ hwlog' = Append(hwlog, HwCall("gpio_pin_configure_dt", l, 0, r))

Goto(t, label) == pc' = [pc EXCEPT ![t] = label]

\* return r;  (the lock is released by Unlock, the cleanup handler)
ReturnFrom(t, label, r, path) ==
    /\ pc' = [pc EXCEPT ![t] = label]
    /\ ret' = [ret EXCEPT ![t] = r]
    /\ exit_path' = [exit_path EXCEPT ![t] = path]

\* The handlers that keep a static request_buffer and request_offset.
Handlers == {"select", "toggle"}

\* No HTTP request is being handled.
NoRequest ==
    [kind |-> "none", line |-> 0, connector |-> 0, gets |-> 0, status |-> 0,
     resp |-> [l \in Lines |-> FALSE]]

\* History of gpio_control_toggle_select calls: thread t called toggle on
\* line `line`, whose tracked state was `before` when the first of these
\* toggles took the mutex; `done` of them have returned success, and no
\* other call of the controller has entered since.  t = 0: no such run.
NoRun == [t |-> 0, line |-> 0, before |-> FALSE, done |-> 0]

\* The history after thread t enters function o with select_line l: a toggle
\* following a successful toggle of the same line by the same thread goes on
\* with the run, another toggle of a valid line starts one, any other call
\* ends it.
RunOnEntry(t, o, l) ==
    IF o = "toggle" /\ l \in Lines
    THEN IF toggle_run.t = t /\ toggle_run.line = l /\ toggle_run.done = 1
         THEN toggle_run
         ELSE [t |-> t, line |-> l, before |-> Tracked(l), done |-> 0]
    ELSE NoRun

\* The history after thread t enters the gpio_control_set_select of its
\* toggle: the run goes on if no other call came after the toggle's get.
RunOnSet(t) == IF toggle_run.t = t THEN toggle_run ELSE NoRun

\* The history after thread t leaves a locked function: the first toggle of
\* a run that returns success is counted, a toggle that fails or the second
\* toggle ends the run.
RunOnReturn(t) ==
    IF pc[t] = "set_ret" /\ op[t] = "toggle"
    THEN IF toggle_run.t = t /\ ret[t] = 0 /\ toggle_run.done = 0
         THEN [toggle_run EXCEPT !.done = 1]
         ELSE NoRun
    ELSE toggle_run

----------------------------------------------------------------------------
\* History of overlapping gpio_control_toggle_select calls: thread t's
\* toggle of line `line`, whose get had read `read`, has returned success
\* while the toggle of another thread, whose get had read the same value of
\* the same line, was between its get and its set; and no call has entered
\* since, but the sets of such waiting toggles.  t = 0: no such toggle.
NoToggle == [t |-> 0, line |-> 0, read |-> FALSE]

\* Thread u is in a toggle of line l between its get, which read v, and its
\* set.
ToggleWaits(u, l, v) ==
    /\ pc[u] = "tg_check" /\ op[u] = "toggle" /\ ret[u] >= 0
    /\ select_line[u] = l
    /\ current_state[u] = v

\* The history after thread t enters the set of its toggle.
OverlapOnSet(t) ==
    IF /\ last_toggle.t \notin {0, t}
       /\ last_toggle.line = select_line[t]
       /\ last_toggle.read = current_state[t]
    THEN last_toggle
    ELSE NoToggle

\* The history after thread t leaves a locked function.
OverlapOnReturn(t) ==
    IF pc[t] = "set_ret" /\ op[t] = "toggle"
    THEN IF /\ ret[t] = 0
            /\ \E u \in Procs \ {t} :
                   ToggleWaits(u, select_line[t], current_state[t])
         THEN [t |-> t, line |-> select_line[t], read |-> current_state[t]]
         ELSE NoToggle
    ELSE last_toggle

\* The controller before gpio_control_init: the statics of lines 41-44, the
\* mutex free, every thread outside the API.
InitController ==
    /\ select0_state = FALSE
    /\ select1_state = FALSE
    /\ initialized = FALSE
    /\ gpio_control_mutex = 0
    /\ CONFIG_GPIO_EMUL \in BOOLEAN
    /\ pin = [l \in Lines |-> FALSE]
    /\ pc = [t \in Procs |-> "idle"]
    /\ op = [t \in Procs |-> "none"]
    /\ select_line = [t \in Procs |-> 0]
    /\ state = [t \in Procs |-> FALSE]
    /\ state_null = [t \in Procs |-> FALSE]
    /\ other_pin_cleared = [t \in Procs |-> FALSE]
    /\ original_other_state = [t \in Procs |-> FALSE]
    /\ ret = [t \in Procs |-> 0]
    /\ current_state = [t \in Procs |-> FALSE]
    /\ out_written = [t \in Procs |-> FALSE]
    /\ exit_path = [t \in Procs |-> "none"]
    /\ hwlog = <<>>
    /\ critical_logged = FALSE
    /\ pre = NoSnapshot
    /\ toggle_run = NoRun
    /\ last_toggle = NoToggle

\* The controller with callers that make any calls in any order; main() and
\* the request handlers are not part of this specification.
Init ==
    /\ InitController
    /\ main_pc = "off"
    /\ boot_log = <<>>
    /\ http = NoRequest
    /\ request_offset = [k \in Handlers |-> 0]

\* SCOPED_LOCK(gpio_control_mutex): k_mutex_lock(..., K_FOREVER).  The caller
\* blocks while another thread owns the mutex, so the step that enters a
\* locked function is enabled only when the mutex is free.
Acquire(t) ==
    /\ gpio_control_mutex = 0
    /\ gpio_control_mutex' = t
    /\ pre' = Snapshot
    /\ hwlog' = <<>>
    /\ critical_logged' = FALSE

\* A thread calls a locked function with arguments l, s, isnull and gets
\* the mutex; its locals are fresh.
EnterCall(t, o, label, l, s, isnull) ==
    /\ Acquire(t)
    /\ pc' = [pc EXCEPT ![t] = label]
    /\ op' = [op EXCEPT ![t] = o]
    /\ select_line' = [select_line EXCEPT ![t] = l]
    /\ state' = [state EXCEPT ![t] = s]
    /\ state_null' = [state_null EXCEPT ![t] = isnull]
    /\ toggle_run' = RunOnEntry(t, o, l)
    /\ last_toggle' = NoToggle
    /\ UNCHANGED <<statics, CONFIG_GPIO_EMUL, pin, other_pin_cleared,
                   original_other_state, ret, current_state, out_written,
                   exit_path>>

\* A caller of the API that is between two calls makes a call.
Enter(t, o, label, l, s, isnull) ==
    /\ pc[t] = "idle"
    /\ EnterCall(t, o, label, l, s, isnull)
    /\ UNCHANGED prog

\* An initialize that does not take the mutex.
CallInit_NoLock(t) ==
    /\ pc[t] = "idle"
    /\ pc' = [pc EXCEPT ![t] = "init_chk"]
    /\ op' = [op EXCEPT ![t] = "init"]
    /\ UNCHANGED <<statics, gpio_control_mutex, CONFIG_GPIO_EMUL, pin,
                   select_line, state, state_null, other_pin_cleared,
                   original_other_state, ret, current_state, out_written,
                   exit_path, hwlog, critical_logged, pre, toggle_run, last_toggle, prog>>

\* gpio_control_init()
CallInit(t) == Enter(t, "init", "init_chk", 0, FALSE, FALSE)

\* gpio_control_set_select(l, s)
CallSet(t, l, s) == Enter(t, "set", "set_chk", l, s, FALSE)

\* A caller enters a function that does not take the mutex.
EnterNoLock(t, o, label, l, s, isnull) ==
    /\ pc[t] = "idle"
    /\ pc' = [pc EXCEPT ![t] = label]
    /\ op' = [op EXCEPT ![t] = o]
    /\ select_line' = [select_line EXCEPT ![t] = l]
    /\ state' = [state EXCEPT ![t] = s]
    /\ state_null' = [state_null EXCEPT ![t] = isnull]
    /\ UNCHANGED <<statics, gpio_control_mutex, CONFIG_GPIO_EMUL, pin,
                   other_pin_cleared, original_other_state, ret,
                   current_state, out_written, exit_path, hwlog,
                   critical_logged, pre, toggle_run, last_toggle, prog>>

CallGet_NoLock(t, l, isnull) ==
    EnterNoLock(t, "get", "get_body", l, FALSE, isnull)

\* gpio_control_get_select(l, state), state == NULL when isnull
CallGet(t, l, isnull) == Enter(t, "get", "get_body", l, FALSE, isnull)

\* gpio_control_toggle_select(l), which starts with
\* ret = gpio_control_get_select(select_line, &current_state);
CallToggle(t, l) == Enter(t, "toggle", "get_body", l, FALSE, FALSE)

----------------------------------------------------------------------------
\* gpio_control_init

\* gpio_control_init without its early return.
InitCheck_Always(t) ==
    /\ pc[t] = "init_chk"
    /\ Goto(t, "init_rdy0")
    /\ UNCHANGED <<statics, gpio_control_mutex, CONFIG_GPIO_EMUL, pin, op,
                   locals, hwlog, critical_logged, pre, toggle_run, last_toggle, prog>>

\* gpio_control_init whose early return resets the tracked states.
InitCheck_ResetOnRepeat(t) ==
    /\ pc[t] = "init_chk"
    /\ IF initialized
       THEN /\ ReturnFrom(t, "init_ret", 0, "already_initialized")
            /\ select0_state' = FALSE
            /\ select1_state' = FALSE
       ELSE /\ Goto(t, "init_rdy0")
            /\ UNCHANGED <<ret, exit_path, select0_state, select1_state>>
    /\ UNCHANGED <<initialized, gpio_control_mutex, CONFIG_GPIO_EMUL, pin, op,
                   select_line, state, state_null, other_pin_cleared,
                   original_other_state, current_state, out_written, hwlog,
                   critical_logged, pre, toggle_run, last_toggle, prog>>

\* An initialize that drops the initialized flag and configures again.
InitCheck_Restart(t) ==
    /\ pc[t] = "init_chk"
    /\ initialized' = FALSE
    /\ Goto(t, "init_rdy0")
    /\ UNCHANGED <<select0_state, select1_state, ret, exit_path>>
    /\ UNCHANGED <<gpio_control_mutex, CONFIG_GPIO_EMUL, pin, op,
                   select_line, state, state_null, other_pin_cleared,
                   original_other_state, current_state, out_written, hwlog,
                   critical_logged, pre, toggle_run, last_toggle, prog>>

\* if (initialized) { LOG_WRN(...); return 0; }
InitCheck(t) ==
    /\ pc[t] = "init_chk"
    /\ IF initialized
       THEN ReturnFrom(t, "init_ret", 0, "already_initialized")
       ELSE /\ Goto(t, "init_rdy0")
            /\ UNCHANGED <<ret, exit_path>>
    /\ UNCHANGED <<statics, gpio_control_mutex, CONFIG_GPIO_EMUL, pin, op,
                   select_line, state, state_null, other_pin_cleared,
                   original_other_state, current_state, out_written, hwlog,
                   critical_logged, pre, toggle_run, last_toggle, prog>>

\* if (!gpio_is_ready_dt(&jtag_selectN)) return -ENODEV;
InitReady(t, l) ==
    /\ pc[t] = (IF l = 0 THEN "init_rdy0" ELSE "init_rdy1")
    /\ \E ready \in BOOLEAN :
          /\ hwlog' = Append(hwlog, HwCall("gpio_is_ready_dt", l, 0, Level(ready)))
          /\ IF ~ready
             THEN ReturnFrom(t, "init_ret", -ENODEV, "not_ready")
             ELSE /\ Goto(t, IF l = 0 THEN "init_rdy1" ELSE "init_cfg0")
                  /\ UNCHANGED <<ret, exit_path>>
    /\ UNCHANGED <<statics, gpio_control_mutex, CONFIG_GPIO_EMUL, pin, op,
                   select_line, state, state_null, other_pin_cleared,
                   original_other_state, current_state, out_written,
                   critical_logged, pre, toggle_run, last_toggle, prog>>

\* ret = gpio_pin_configure_dt(&jtag_selectN, GPIO_OUTPUT_INACTIVE);
\* if (ret < 0) return ret;
InitConfigure(t, l) ==
    /\ pc[t] = (IF l = 0 THEN "init_cfg0" ELSE "init_cfg1")
    /\ \E r \in WriteResults :
          /\ PinConfigure(l, r)
          /\ IF r < 0
             THEN ReturnFrom(t, "init_ret", r, "configure")
             ELSE /\ Goto(t, IF l = 0 THEN "init_ver0" ELSE "init_ver1")
                  /\ UNCHANGED <<ret, exit_path>>
    /\ UNCHANGED <<statics, gpio_control_mutex, CONFIG_GPIO_EMUL, op,
                   select_line, state, state_null, other_pin_cleared,
                   original_other_state, current_state, out_written,
                   critical_logged, pre, toggle_run, last_toggle, prog>>

\* gpio_control_init that sets initialized before the last verification.
InitVerify_InitBeforeVerify(t, l) ==
    /\ pc[t] = (IF l = 0 THEN "init_ver0" ELSE "init_ver1")
    /\ \E v \in VerifyOutcomes(l, 0) :
          /\ hwlog' = v.log
          /\ IF l = 0 /\ v.res < 0
             THEN /\ ReturnFrom(t, "init_ret", v.res, "verify")
                  /\ UNCHANGED statics
             ELSE IF l = 0
             THEN /\ Goto(t, "init_cfg1")
                  /\ UNCHANGED <<ret, exit_path, statics>>
             ELSE /\ select0_state' = FALSE
                  /\ select1_state' = FALSE
                  /\ initialized' = TRUE
                  /\ ReturnFrom(t, "init_ret", v.res,
                                IF v.res < 0 THEN "verify" ELSE "ok")
    /\ UNCHANGED <<gpio_control_mutex, CONFIG_GPIO_EMUL, pin, op,
                   select_line, state, state_null, other_pin_cleared,
                   original_other_state, current_state, out_written,
                   critical_logged, pre, toggle_run, last_toggle, prog>>

\* ret = verify_gpio_state(&jtag_selectN, 0, ...); if (ret < 0) return ret;
\* After line 1: select0_state = false; select1_state = false;
\* initialized = true; return 0;
InitVerify(t, l) ==
    /\ pc[t] = (IF l = 0 THEN "init_ver0" ELSE "init_ver1")
    /\ \E v \in VerifyOutcomes(l, 0) :
          /\ hwlog' = v.log
          /\ IF v.res < 0
             THEN /\ ReturnFrom(t, "init_ret", v.res, "verify")
                  /\ UNCHANGED statics
             ELSE IF l = 0
             THEN /\ Goto(t, "init_cfg1")
                  /\ UNCHANGED <<ret, exit_path, statics>>
             ELSE /\ select0_state' = FALSE
                  /\ select1_state' = FALSE
                  /\ initialized' = TRUE
                  /\ ReturnFrom(t, "init_ret", 0, "ok")
    /\ UNCHANGED <<gpio_control_mutex, CONFIG_GPIO_EMUL, pin, op,
                   select_line, state, state_null, other_pin_cleared,
                   original_other_state, current_state, out_written,
                   critical_logged, pre, toggle_run, last_toggle, prog>>

----------------------------------------------------------------------------
\* gpio_control_set_select

\* Lines 173-225 up to the first driver call: two guards that return
\* -EINVAL, then the decision whether the other line must be cleared first.
SetCheckBody(t, guard1, path1, guard2, path2, needClear) ==
    /\ pc[t] = "set_chk"
    /\ IF guard1
       THEN /\ ReturnFrom(t, "set_ret", -EINVAL, path1)
            /\ UNCHANGED original_other_state
       ELSE IF guard2
       THEN /\ ReturnFrom(t, "set_ret", -EINVAL, path2)
            /\ UNCHANGED original_other_state
       ELSE IF needClear
       THEN /\ original_other_state' =
                  [original_other_state EXCEPT
                      ![t] = Tracked(OtherLine(select_line[t]))]
            /\ Goto(t, "set_clr")
            /\ UNCHANGED <<ret, exit_path>>
       ELSE /\ Goto(t, "set_tgt")
            /\ UNCHANGED <<ret, exit_path, original_other_state>>
    /\ UNCHANGED <<statics, gpio_control_mutex, CONFIG_GPIO_EMUL, pin, op,
                   select_line, state, state_null, other_pin_cleared,
                   current_state, out_written, hwlog, critical_logged, pre,
                   toggle_run, last_toggle, prog>>

SetCheck_NoPreempt(t) ==
    SetCheckBody(t, ~initialized, "not_initialized",
                 select_line[t] \notin Lines, "invalid_line", FALSE)

SetCheck_ClearOnLow(t) ==
    SetCheckBody(t, ~initialized, "not_initialized",
                 select_line[t] \notin Lines, "invalid_line",
                 Tracked(OtherLine(select_line[t])))

SetCheck_NoInitGuard(t) ==
    SetCheckBody(t, FALSE, "not_initialized",
                 select_line[t] \notin Lines, "invalid_line",
                 state[t] /\ Tracked(OtherLine(select_line[t])))

SetCheck_LineFirst(t) ==
    SetCheckBody(t, select_line[t] \notin Lines, "invalid_line",
                 ~initialized, "not_initialized",
                 state[t] /\ Tracked(OtherLine(select_line[t])))

\* A set that takes the pre-emption decision from the level of the other
\* pin.
SetCheck_FromPins(t) ==
    SetCheckBody(t, ~initialized, "not_initialized",
                 select_line[t] \notin Lines, "invalid_line",
                 state[t] /\ pin[OtherLine(select_line[t])])

\* A set that returns success at once when the line is already tracked at
\* the requested state.
SetCheck_SkipUnchanged(t) ==
    IF initialized /\ select_line[t] \in Lines
          /\ Tracked(select_line[t]) = state[t]
    THEN /\ pc[t] = "set_chk"
         /\ ReturnFrom(t, "set_ret", 0, "ok")
         /\ UNCHANGED <<statics, gpio_control_mutex, CONFIG_GPIO_EMUL, pin, op,
                        select_line, state, state_null, other_pin_cleared,
                        original_other_state, current_state, out_written,
                        hwlog, critical_logged, pre, toggle_run, last_toggle, prog>>
    ELSE SetCheckBody(t, ~initialized, "not_initialized",
                      select_line[t] \notin Lines, "invalid_line",
                      state[t] /\ Tracked(OtherLine(select_line[t])))

\* if (!initialized) return -EINVAL;
\* switch (select_line) { case 0: ... case 1: ... default: return -EINVAL; }
\* if (state == true && *other_state_var == true) { original_other_state = ...
SetCheck(t) ==
    SetCheckBody(t, ~initialized, "not_initialized",
                 select_line[t] \notin Lines, "invalid_line",
                 state[t] /\ Tracked(OtherLine(select_line[t])))

\* A pre-emption clear whose write error is ignored.
SetClear_IgnoreFailure(t) ==
    /\ pc[t] = "set_clr"
    /\ \E r \in WriteResults :
          /\ PinSet(OtherLine(select_line[t]), FALSE, r)
          /\ Goto(t, IF r < 0 THEN "set_tgt" ELSE "set_clr_ver")
          /\ UNCHANGED <<ret, exit_path>>
    /\ UNCHANGED <<statics, gpio_control_mutex, CONFIG_GPIO_EMUL, op,
                   select_line, state, state_null, other_pin_cleared,
                   original_other_state, current_state, out_written,
                   critical_logged, pre, toggle_run, last_toggle, prog>>

\* ret = gpio_pin_set_dt(other_gpio_spec, 0); if (ret < 0) return ret;
SetClear(t) ==
    /\ pc[t] = "set_clr"
    /\ \E r \in WriteResults :
          /\ PinSet(OtherLine(select_line[t]), FALSE, r)
          /\ IF r < 0
             THEN ReturnFrom(t, "set_ret", r, "clear_write")
             ELSE /\ Goto(t, "set_clr_ver")
                  /\ UNCHANGED <<ret, exit_path>>
    /\ UNCHANGED <<statics, gpio_control_mutex, CONFIG_GPIO_EMUL, op,
                   select_line, state, state_null, other_pin_cleared,
                   original_other_state, current_state, out_written,
                   critical_logged, pre, toggle_run, last_toggle, prog>>

\* ret = verify_gpio_state(other_gpio_spec, 0, ...); if (ret < 0) return ret;
\* *other_state_var = <newOther>; other_pin_cleared = true;
SetClearVerifyBody(t, newOther) ==
    /\ pc[t] = "set_clr_ver"
    /\ \E v \in VerifyOutcomes(OtherLine(select_line[t]), 0) :
          /\ hwlog' = v.log
          /\ IF v.res < 0
             THEN /\ ReturnFrom(t, "set_ret", v.res, "clear_verify")
                  /\ UNCHANGED <<select0_state, select1_state, other_pin_cleared>>
             ELSE /\ SetTracked(OtherLine(select_line[t]), newOther)
                  /\ other_pin_cleared' = [other_pin_cleared EXCEPT ![t] = TRUE]
                  /\ Goto(t, "set_tgt")
                  /\ UNCHANGED <<ret, exit_path>>
    /\ UNCHANGED <<initialized, gpio_control_mutex, CONFIG_GPIO_EMUL, pin, op,
                   select_line, state, state_null, original_other_state,
                   current_state, out_written, critical_logged, pre,
                   toggle_run, last_toggle, prog>>

SetClearVerify_KeepTracked(t) ==
    SetClearVerifyBody(t, Tracked(OtherLine(select_line[t])))

SetClearVerify(t) == SetClearVerifyBody(t, FALSE)

\* A target write that is issued again when it fails.
SetTarget_Retry(t) ==
    /\ pc[t] = "set_tgt"
    /\ \E r \in WriteResults :
          /\ PinSet(select_line[t], state[t], r)
          /\ Goto(t, IF r < 0 THEN "set_tgt" ELSE "set_tgt_ver")
          /\ UNCHANGED <<ret, exit_path>>
    /\ UNCHANGED <<statics, gpio_control_mutex, CONFIG_GPIO_EMUL, op,
                   select_line, state, state_null, other_pin_cleared,
                   original_other_state, current_state, out_written,
                   critical_logged, pre, toggle_run, last_toggle, prog>>

\* ret = gpio_pin_set_dt(gpio_spec, state ? 1 : 0);
\* if (ret < 0) { if (other_pin_cleared) <rollback>; return ret; }
SetTarget(t) ==
    /\ pc[t] = "set_tgt"
    /\ \E r \in WriteResults :
          /\ PinSet(select_line[t], state[t], r)
          /\ IF r < 0
             THEN IF other_pin_cleared[t]
                  THEN ReturnFrom(t, "set_rb_w", r, "target_write")
                  ELSE ReturnFrom(t, "set_ret", r, "target_write")
             ELSE /\ Goto(t, "set_tgt_ver")
                  /\ UNCHANGED <<ret, exit_path>>
    /\ UNCHANGED <<statics, gpio_control_mutex, CONFIG_GPIO_EMUL, op,
                   select_line, state, state_null, other_pin_cleared,
                   original_other_state, current_state, out_written,
                   critical_logged, pre, toggle_run, last_toggle, prog>>

\* ret = verify_gpio_state(gpio_spec, state ? 1 : 0, ...);
\* if (ret < 0) { if (other_pin_cleared) <rollback>; return ret; }
\* *state_var = <newState>; return 0;
SetTargetVerifyBody(t, rollback, newState) ==
    /\ pc[t] = "set_tgt_ver"
    /\ \E v \in VerifyOutcomes(select_line[t], Level(state[t])) :
          /\ hwlog' = v.log
          /\ IF v.res < 0
             THEN /\ IF rollback
                     THEN ReturnFrom(t, "set_rb_v", v.res, "target_verify")
                     ELSE ReturnFrom(t, "set_ret", v.res, "target_verify")
                  /\ UNCHANGED <<select0_state, select1_state>>
             ELSE /\ SetTracked(select_line[t], newState)
                  /\ ReturnFrom(t, "set_ret", 0, "ok")
    /\ UNCHANGED <<initialized, gpio_control_mutex, CONFIG_GPIO_EMUL, pin, op,
                   select_line, state, state_null, other_pin_cleared,
                   original_other_state, current_state, out_written,
                   critical_logged, pre, toggle_run, last_toggle, prog>>

SetTargetVerify_NoRollback(t) == SetTargetVerifyBody(t, FALSE, state[t])

SetTargetVerify_NoUpdate(t) ==
    SetTargetVerifyBody(t, other_pin_cleared[t], Tracked(select_line[t]))

SetTargetVerify(t) == SetTargetVerifyBody(t, other_pin_cleared[t], state[t])

\* The rollback of lines 233-243 (after a failed target write; logs CRITICAL
\* when it fails) and of lines 252-259 (after a failed target verification):
\* rollback_ret = gpio_pin_set_dt(other_gpio_spec, original_other_state ? 1 : 0);
\* if (rollback_ret == 0) *other_state_var = <restored>;
RollbackBody(t, label, logs, restored) ==
    /\ pc[t] = label
    /\ \E r \in WriteResults :
          /\ PinSet(OtherLine(select_line[t]), original_other_state[t], r)
          /\ IF r = 0
             THEN /\ SetTracked(OtherLine(select_line[t]), restored)
                  /\ UNCHANGED critical_logged
             ELSE /\ critical_logged' = (critical_logged \/ logs)
                  /\ UNCHANGED <<select0_state, select1_state>>
    /\ Goto(t, "set_ret")
    /\ UNCHANGED <<initialized, gpio_control_mutex, CONFIG_GPIO_EMUL, op,
                   locals, pre, toggle_run, last_toggle, prog>>

SetRollbackWrite_Forget(t) ==
    RollbackBody(t, "set_rb_w", TRUE, Tracked(OtherLine(select_line[t])))

SetRollbackWrite(t) ==
    RollbackBody(t, "set_rb_w", TRUE, original_other_state[t])

SetRollbackVerify(t) ==
    RollbackBody(t, "set_rb_v", FALSE, original_other_state[t])

----------------------------------------------------------------------------
\* gpio_control_get_select

\* if (!initialized || state == NULL) return -EINVAL;
\* switch (select_line) { case 0: *state = select0_state; ...
\*                        default: return -EINVAL; }  return 0;
GetBody(t) ==
    /\ pc[t] = "get_body"
    /\ IF ~initialized \/ state_null[t]
       THEN /\ ReturnFrom(t, "get_ret", -EINVAL, "not_initialized")
            /\ UNCHANGED <<current_state, out_written>>
       ELSE IF select_line[t] \notin Lines
       THEN /\ ReturnFrom(t, "get_ret", -EINVAL, "invalid_line")
            /\ UNCHANGED <<current_state, out_written>>
       ELSE /\ current_state' =
                  [current_state EXCEPT ![t] = Tracked(select_line[t])]
            /\ out_written' = [out_written EXCEPT ![t] = TRUE]
            /\ ReturnFrom(t, "get_ret", 0, "ok")
    /\ UNCHANGED <<statics, gpio_control_mutex, CONFIG_GPIO_EMUL, pin, op,
                   select_line, state, state_null, other_pin_cleared,
                   original_other_state, hwlog, critical_logged, pre,
                   toggle_run, last_toggle, prog>>

----------------------------------------------------------------------------
\* The call of thread t is over: its arguments and locals are gone and the
\* thread goes on at label.  At "idle" the caller is free to make its next
\* call.
BackTo(t, label) ==
    /\ pc' = [pc EXCEPT ![t] = label]
    /\ op' = [op EXCEPT ![t] = "none"]
    /\ select_line' = [select_line EXCEPT ![t] = 0]
    /\ state' = [state EXCEPT ![t] = FALSE]
    /\ state_null' = [state_null EXCEPT ![t] = FALSE]
    /\ other_pin_cleared' = [other_pin_cleared EXCEPT ![t] = FALSE]
    /\ original_other_state' = [original_other_state EXCEPT ![t] = FALSE]
    /\ ret' = [ret EXCEPT ![t] = 0]
    /\ current_state' = [current_state EXCEPT ![t] = FALSE]
    /\ out_written' = [out_written EXCEPT ![t] = FALSE]
    /\ exit_path' = [exit_path EXCEPT ![t] = "none"]

Idle(t) == BackTo(t, "idle")

\* A toggle whose set runs without taking the mutex.
ToggleCheck_NoLock(t) ==
    /\ pc[t] = "tg_check"
    /\ IF ret[t] < 0
       THEN Idle(t)
       ELSE /\ Goto(t, "set_chk")
            /\ state' = [state EXCEPT ![t] = ~current_state[t]]
            /\ UNCHANGED <<op, select_line, state_null, other_pin_cleared,
                           original_other_state, ret, current_state,
                           out_written, exit_path>>
    /\ UNCHANGED <<statics, CONFIG_GPIO_EMUL, pin, gpio_control_mutex, hwlog,
                   critical_logged, pre, toggle_run, last_toggle, prog>>

\* A toggle that reads the tracked state again under the mutex of its set.
ToggleCheck_Reread(t) ==
    /\ pc[t] = "tg_check"
    /\ IF ret[t] < 0
       THEN /\ Idle(t)
            /\ toggle_run' = NoRun
            /\ UNCHANGED last_toggle
            /\ UNCHANGED <<gpio_control_mutex, hwlog, critical_logged, pre>>
       ELSE /\ Acquire(t)
            /\ toggle_run' = RunOnSet(t)
            /\ last_toggle' = OverlapOnSet(t)
            /\ Goto(t, "set_chk")
            /\ state' = [state EXCEPT ![t] = ~Tracked(select_line[t])]
            /\ UNCHANGED <<op, select_line, state_null, other_pin_cleared,
                           original_other_state, ret, current_state,
                           out_written, exit_path>>
    /\ UNCHANGED <<statics, CONFIG_GPIO_EMUL, pin, prog>>

\* A toggle that writes back the state it has read.
ToggleCheck_NoInvert(t) ==
    /\ pc[t] = "tg_check"
    /\ IF ret[t] < 0
       THEN /\ Idle(t)
            /\ toggle_run' = NoRun
            /\ UNCHANGED last_toggle
            /\ UNCHANGED <<gpio_control_mutex, hwlog, critical_logged, pre>>
       ELSE /\ Acquire(t)
            /\ toggle_run' = RunOnSet(t)
            /\ last_toggle' = OverlapOnSet(t)
            /\ Goto(t, "set_chk")
            /\ state' = [state EXCEPT ![t] = current_state[t]]
            /\ UNCHANGED <<op, select_line, state_null, other_pin_cleared,
                           original_other_state, ret, current_state,
                           out_written, exit_path>>
    /\ UNCHANGED <<statics, CONFIG_GPIO_EMUL, pin, prog>>

\* A toggle that calls set whatever its get has returned.
ToggleCheck_SetAnyway(t) ==
    /\ pc[t] = "tg_check"
    /\ Acquire(t)
    /\ toggle_run' = RunOnSet(t)
    /\ last_toggle' = OverlapOnSet(t)
    /\ Goto(t, "set_chk")
    /\ state' = [state EXCEPT ![t] = ~current_state[t]]
    /\ UNCHANGED <<op, select_line, state_null, other_pin_cleared,
                   original_other_state, ret, current_state, out_written,
                   exit_path>>
    /\ UNCHANGED <<statics, CONFIG_GPIO_EMUL, pin, prog>>

\* gpio_control_toggle_select, after its call of gpio_control_get_select has
\* returned and released the mutex:
\* if (ret < 0) return ret;
\* return gpio_control_set_select(select_line, !current_state);
ToggleCheck(t) ==
    /\ pc[t] = "tg_check"
    /\ IF ret[t] < 0
       THEN /\ Idle(t)
            /\ toggle_run' = NoRun
            /\ UNCHANGED last_toggle
            /\ UNCHANGED <<gpio_control_mutex, hwlog, critical_logged, pre>>
       ELSE /\ Acquire(t)
            /\ toggle_run' = RunOnSet(t)
            /\ last_toggle' = OverlapOnSet(t)
            /\ Goto(t, "set_chk")
            /\ state' = [state EXCEPT ![t] = ~current_state[t]]
            /\ UNCHANGED <<op, select_line, state_null, other_pin_cleared,
                           original_other_state, ret, current_state,
                           out_written, exit_path>>
    /\ UNCHANGED <<statics, CONFIG_GPIO_EMUL, pin, prog>>

\* A cleanup that releases the mutex on the success path only.
Unlock_KeepOnError(t) ==
    /\ pc[t] \in {"init_ret", "set_ret", "get_ret"}
    /\ gpio_control_mutex = t
    /\ gpio_control_mutex' = IF ret[t] < 0 THEN t ELSE 0
    /\ hwlog' = <<>>
    /\ critical_logged' = FALSE
    /\ pre' = NoSnapshot
    /\ toggle_run' = RunOnReturn(t)
    /\ last_toggle' = OverlapOnReturn(t)
    /\ IF pc[t] = "get_ret" /\ op[t] = "toggle"
       THEN /\ Goto(t, "tg_check")
            /\ UNCHANGED <<op, locals>>
       ELSE Idle(t)
    /\ UNCHANGED <<statics, CONFIG_GPIO_EMUL, pin, prog>>

\* A toggle that keeps the mutex between its get and its set.
Unlock_HeldAcrossToggle(t) ==
    /\ pc[t] \in {"init_ret", "set_ret", "get_ret"}
    /\ gpio_control_mutex = t
    /\ gpio_control_mutex' =
           IF pc[t] = "get_ret" /\ op[t] = "toggle" THEN t ELSE 0
    /\ hwlog' = <<>>
    /\ critical_logged' = FALSE
    /\ pre' = NoSnapshot
    /\ toggle_run' = RunOnReturn(t)
    /\ last_toggle' = OverlapOnReturn(t)
    /\ IF pc[t] = "get_ret" /\ op[t] = "toggle"
       THEN /\ Goto(t, "tg_check")
            /\ UNCHANGED <<op, locals>>
       ELSE Idle(t)
    /\ UNCHANGED <<statics, CONFIG_GPIO_EMUL, pin, prog>>

\* mutex_unlock_cleanup, run when a function that used SCOPED_LOCK returns.
ReleaseMutex(t) ==
    /\ pc[t] \in {"init_ret", "set_ret", "get_ret"}
    /\ gpio_control_mutex = t
    /\ gpio_control_mutex' = 0
    /\ hwlog' = <<>>
    /\ critical_logged' = FALSE
    /\ pre' = NoSnapshot
    /\ toggle_run' = RunOnReturn(t)
    /\ last_toggle' = OverlapOnReturn(t)
    /\ UNCHANGED <<statics, CONFIG_GPIO_EMUL, pin>>

\* The return of a locked function to a caller of the API.  A toggle goes on
\* after its get; every other call is over.
Unlock(t) ==
    /\ ReleaseMutex(t)
    /\ IF pc[t] = "get_ret" /\ op[t] = "toggle"
       THEN /\ Goto(t, "tg_check")
            /\ UNCHANGED <<op, locals>>
       ELSE Idle(t)
    /\ UNCHANGED prog

----------------------------------------------------------------------------
Next ==
    \E t \in Threads :
        \/ CallInit(t)
        \/ \E l \in LineArgs, s \in BOOLEAN : CallSet(t, l, s)
        \/ \E l \in LineArgs, n \in BOOLEAN : CallGet(t, l, n)
        \/ \E l \in LineArgs : CallToggle(t, l)
        \/ InitCheck(t)
        \/ \E l \in Lines : InitReady(t, l)
        \/ \E l \in Lines : InitConfigure(t, l)
        \/ \E l \in Lines : InitVerify(t, l)
        \/ SetCheck(t)
        \/ SetClear(t)
        \/ SetClearVerify(t)
        \/ SetTarget(t)
        \/ SetTargetVerify(t)
        \/ SetRollbackWrite(t)
        \/ SetRollbackVerify(t)
        \/ GetBody(t)
        \/ ToggleCheck(t)
        \/ Unlock(t)

Spec == Init /\ [][Next]_vars

\* The steps of thread t inside gpio_control_init, gpio_control_set_select
\* and gpio_control_get_select, one per driver call.
ControllerStep(t) ==
    \/ InitCheck(t)
    \/ \E l \in Lines : InitReady(t, l)
    \/ \E l \in Lines : InitConfigure(t, l)
    \/ \E l \in Lines : InitVerify(t, l)
    \/ SetCheck(t)
    \/ SetClear(t)
    \/ SetClearVerify(t)
    \/ SetTarget(t)
    \/ SetTargetVerify(t)
    \/ SetRollbackWrite(t)
    \/ SetRollbackVerify(t)
    \/ GetBody(t)

\* The steps of thread t between SCOPED_LOCK and the release of the mutex.
\* None of them waits: the driver calls return and the thread owns the mutex.
BodyStep(t) == ControllerStep(t) \/ Unlock(t)

\* Fair scheduling: a thread inside a locked function keeps running, and a
\* thread blocked in k_mutex_lock(K_FOREVER) gets the mutex when it is
\* released again and again.  Callers are not obliged to make calls.
Fairness ==
    \A t \in Threads : WF_vars(BodyStep(t)) /\ SF_vars(ToggleCheck(t))

SpecFair == Spec /\ Fairness

----------------------------------------------------------------------------
\* The program around the controller: main() (main.c), the HTTP request
\* handlers (http_rest_api.c), which run on the one thread of the HTTP
\* server, and the shell commands (shell_cmds.c).

\* The thread of the HTTP server.
HttpThread == 1

\* The threads that run shell commands.
ShellThreads == Threads \ {HttpThread}

HTTP_200_OK == 200

HTTP_400_BAD_REQUEST == 400

HTTP_500_INTERNAL_SERVER_ERROR == 500

\* Requests carry connector numbers -1..MaxConnector and line numbers
\* -1..MaxLine; -1 is the value of a field the JSON body does not have.
MaxConnector == 4

ReqLines == -1..MaxLine

ReqConnectors == -1..MaxConnector

\* Every controller variable but pc.
ctl_but_pc == <<statics, gpio_control_mutex, CONFIG_GPIO_EMUL, pin, op, locals,
                hwlog, critical_logged, pre, toggle_run, last_toggle>>

\* int ret = gpio_control_init(); ... gpio_control_set_select(0, false);
\* ... gpio_control_set_select(1, false);  (main.c lines 29, 38, 43)
MainCallAt(pos) ==
    CASE pos = "init" -> [op |-> "init", label |-> "init_chk", line |-> 0]
      [] pos = "set0" -> [op |-> "set", label |-> "set_chk", line |-> 0]
      [] pos = "set1" -> [op |-> "set", label |-> "set_chk", line |-> 1]

\* Where main() goes on after the call at pos has returned r: a failed
\* gpio_control_init ends main, a failed set is logged only.
MainAfter_SkipDefaults(pos, r) ==
    CASE pos = "init" -> IF r < 0 THEN "exited" ELSE "net"
      [] pos = "set0" -> "set1"
      [] pos = "set1" -> "net"

MainAfter(pos, r) ==
    CASE pos = "init" -> IF r < 0 THEN "exited" ELSE "set0"
      [] pos = "set0" -> "set1"
      [] pos = "set1" -> "net"

InitProgram ==
    /\ InitController
    /\ main_pc = "init"
    /\ boot_log = <<>>
    /\ http = NoRequest
    /\ request_offset = [k \in Handlers |-> 0]

\* main() makes its next controller call.
MainCall ==
    /\ main_pc \in {"init", "set0", "set1"}
    /\ pc[MainThread] = "idle"
    /\ EnterCall(MainThread, MainCallAt(main_pc).op, MainCallAt(main_pc).label,
                 MainCallAt(main_pc).line, FALSE, FALSE)
    /\ UNCHANGED prog

\* The call returns to main().
MainReturn ==
    /\ main_pc \in {"init", "set0", "set1"}
    /\ ReleaseMutex(MainThread)
    /\ Idle(MainThread)
    /\ boot_log' = Append(boot_log, [op |-> op[MainThread],
                                     line |-> select_line[MainThread],
                                     state |-> state[MainThread]])
    /\ main_pc' = MainAfter(main_pc, ret[MainThread])
    /\ UNCHANGED <<http, request_offset>>

\* ret = network_init(); if (ret < 0) return ret;
MainNetworkInit ==
    /\ main_pc = "net"
    /\ \E ok \in BOOLEAN : main_pc' = IF ok THEN "http" ELSE "exited"
    /\ UNCHANGED <<ctl_but_pc, pc, boot_log, http, request_offset>>

\* ret = http_api_init(); if (ret < 0) return ret;  http_api_init starts the
\* HTTP server (http_server_start); requests are served from then on.
MainHttpInit ==
    /\ main_pc = "http"
    /\ \E ok \in BOOLEAN : main_pc' = IF ok THEN "running" ELSE "exited"
    /\ UNCHANGED <<ctl_but_pc, pc, boot_log, http, request_offset>>

HttpServing == main_pc = "running"

\* if (parse_ret < 0 || req.line < 0 || req.line > 1 ||
\*     req.connector < 0 || req.connector > 3)
SelectRejected(parse_ok, line, connector) ==
    ~parse_ok \/ line < 0 \/ line > 1 \/ connector < 0 \/ connector > 3

\* const bool value = (req.connector == 1 || req.connector == 3);
SelectValue_Odd(connector) == connector % 2 = 1

SelectValue(connector) == connector = 1 \/ connector = 3

\* if (parse_ret < 0 || req.line < 0 || req.line > 1)
ToggleRejected(parse_ok, line) == ~parse_ok \/ line < 0 \/ line > 1

\* static uint8_t request_buffer[128];
REQUEST_BUFFER_SIZE == 128

\* The data_len of a chunk is 0, 100 or MaxDataLen bytes, so that a second
\* chunk does not fit and a single chunk can exceed the buffer.
MaxDataLen == 200

ChunkLens == {0, 100, MaxDataLen}

Min(a, b) == IF a < b THEN a ELSE b

\* A copy that leaves room for one byte more than the buffer has.
Accumulate_OneTooMany(offset, len) ==
    IF len > 0 THEN offset + Min(len, REQUEST_BUFFER_SIZE + 1 - offset)
    ELSE offset

\* if (request_ctx->data_len > 0) {
\*     to_copy = MIN(request_ctx->data_len, sizeof(request_buffer) - request_offset);
\*     memcpy(...); request_offset += to_copy; }
\* The subtraction is in size_t; it does not wrap as long as request_offset
\* is at most sizeof(request_buffer).
Accumulate(offset, len) ==
    IF len > 0 THEN offset + Min(len, REQUEST_BUFFER_SIZE - offset)
    ELSE offset

\* Handler k takes in the data of a chunk of len bytes.
Receive(k, len) ==
    request_offset' = [request_offset EXCEPT ![k] = Accumulate(@, len)]

\* Handler k is called with a chunk that is not the last one of its request
\* (HTTP_SERVER_DATA_MORE): the data is accumulated, nothing else is done.
HttpData(k, len) ==
    /\ HttpServing
    /\ pc[HttpThread] = "idle"
    /\ Receive(k, len)
    /\ UNCHANGED <<ctl_but_pc, pc, main_pc, boot_log, http>>

\* Handler k is called with HTTP_SERVER_DATA_ABORTED: request_offset = 0.
HttpAborted(k) ==
    /\ HttpServing
    /\ pc[HttpThread] = "idle"
    /\ request_offset' = [request_offset EXCEPT ![k] = 0]
    /\ UNCHANGED <<ctl_but_pc, pc, main_pc, boot_log, http>>

\* The handler answers without calling the controller.
HttpAnswer(kind, line, connector, status) ==
    /\ http' = [NoRequest EXCEPT !.kind = kind, !.line = line,
                                 !.connector = connector, !.status = status]
    /\ Goto(HttpThread, "h_resp")
    /\ UNCHANGED ctl_but_pc

\* select_handler on HTTP_SERVER_DATA_FINAL, up to its call of
\* gpio_control_set_select(req.line, value).
HttpSelect(parse_ok, line, connector) ==
    /\ HttpServing
    /\ pc[HttpThread] = "idle"
    /\ IF SelectRejected(parse_ok, line, connector)
       THEN HttpAnswer("select", line, connector, HTTP_400_BAD_REQUEST)
       ELSE /\ EnterCall(HttpThread, "set", "set_chk", line,
                         SelectValue(connector), FALSE)
            /\ http' = [NoRequest EXCEPT !.kind = "select", !.line = line,
                                         !.connector = connector]
    /\ \E len \in ChunkLens : Receive("select", len)
    /\ UNCHANGED <<main_pc, boot_log>>

\* toggle_handler on HTTP_SERVER_DATA_FINAL, up to the get of
\* gpio_control_toggle_select(req.line).
HttpToggle(parse_ok, line) ==
    /\ HttpServing
    /\ pc[HttpThread] = "idle"
    /\ IF ToggleRejected(parse_ok, line)
       THEN HttpAnswer("toggle", line, 0, HTTP_400_BAD_REQUEST)
       ELSE /\ EnterCall(HttpThread, "toggle", "get_body", line, FALSE, FALSE)
            /\ http' = [NoRequest EXCEPT !.kind = "toggle", !.line = line]
    /\ \E len \in ChunkLens : Receive("toggle", len)
    /\ UNCHANGED <<main_pc, boot_log>>

\* status_handler on HTTP_SERVER_DATA_FINAL, up to its first call of
\* gpio_control_get_select.
HttpStatus ==
    /\ HttpServing
    /\ pc[HttpThread] = "idle"
    /\ http' = [NoRequest EXCEPT !.kind = "status"]
    /\ Goto(HttpThread, "h_get")
    /\ UNCHANGED <<ctl_but_pc, main_pc, boot_log, request_offset>>

\* The status a handler answers when its set or toggle has returned r and
\* the response was then encoded or not.
StatusFor_Always200(r, encoded) == HTTP_200_OK

StatusFor(r, encoded) ==
    IF r < 0 THEN HTTP_500_INTERNAL_SERVER_ERROR
    ELSE IF encoded THEN HTTP_200_OK
    ELSE HTTP_500_INTERNAL_SERVER_ERROR

\* gpio_control_toggle_select in toggle_handler, after its get: the set
\* follows, or the get has failed, toggle returns the error and
\* toggle_handler answers 500.
HttpToggleCheck ==
    IF ret[HttpThread] >= 0
    THEN ToggleCheck(HttpThread)
    ELSE /\ pc[HttpThread] = "tg_check"
         /\ BackTo(HttpThread, "h_resp")
         /\ http' = [http EXCEPT !.status = StatusFor(ret[HttpThread], TRUE)]
         /\ toggle_run' = NoRun
         /\ UNCHANGED last_toggle
         /\ UNCHANGED <<statics, gpio_control_mutex, CONFIG_GPIO_EMUL, pin,
                        hwlog, critical_logged, pre, main_pc, boot_log, request_offset>>

\* gpio_control_toggle_select in toggle_handler leaves its get.
HttpToggleUnlock ==
    /\ pc[HttpThread] = "get_ret"
    /\ op[HttpThread] = "toggle"
    /\ Unlock(HttpThread)

\* gpio_control_set_select or gpio_control_toggle_select returns to the
\* handler: if (ret < 0) ... HTTP_500_INTERNAL_SERVER_ERROR, else the handler
\* goes on to read the lines for its response.
HttpSetReturn ==
    /\ pc[HttpThread] = "set_ret"
    /\ ReleaseMutex(HttpThread)
    /\ IF ret[HttpThread] < 0
       THEN /\ BackTo(HttpThread, "h_resp")
            /\ http' = [http EXCEPT !.status = StatusFor(ret[HttpThread], TRUE)]
       ELSE /\ BackTo(HttpThread, "h_get")
            /\ UNCHANGED http
    /\ UNCHANGED <<main_pc, boot_log, request_offset>>

\* The lines a handler reads for its response, in order:
\* gpio_control_get_select(0, ...); gpio_control_get_select(1, ...); in
\* select_handler and in status_handler, gpio_control_get_select(req.line,
\* ...) in toggle_handler.
ResponseGets(kind, line) == IF kind = "toggle" THEN <<line>> ELSE <<0, 1>>

\* The handler calls gpio_control_get_select for its response; http.gets is
\* the number of these calls that have returned.
HttpGet ==
    /\ pc[HttpThread] = "h_get"
    /\ EnterCall(HttpThread, "get", "get_body",
                 ResponseGets(http.kind, http.line)[http.gets + 1],
                 FALSE, FALSE)
    /\ UNCHANGED prog

\* The response after the get of the HTTP thread has returned: the value
\* the get wrote to resp.select0, resp.select1 or resp.state; false, the
\* initial value in select_handler and toggle_handler and the value
\* status_handler assigns, when the get has failed.
Reported ==
    [http.resp EXCEPT ![select_line[HttpThread]] =
         IF ret[HttpThread] < 0 THEN FALSE ELSE current_state[HttpThread]]

\* The status after the last get: the response is encoded and the handler
\* answers 200; when json_obj_encode_buf fails, select_handler and
\* toggle_handler answer 500 and status_handler returns the error without
\* setting a status.
EncodedStatus(kind, encoded) ==
    IF kind = "status" /\ ~encoded THEN 0 ELSE StatusFor(0, encoded)

\* The handler goes on after its get has returned, with the mutex given
\* back or not.
HttpAfterGet ==
    IF http.gets + 1 < Len(ResponseGets(http.kind, http.line))
    THEN /\ BackTo(HttpThread, "h_get")
         /\ http' = [http EXCEPT !.gets = http.gets + 1, !.resp = Reported]
    ELSE /\ BackTo(HttpThread, "h_resp")
         /\ \E encoded \in BOOLEAN :
               http' = [http EXCEPT
                           !.gets = http.gets + 1,
                           !.resp = Reported,
                           !.status = EncodedStatus(http.kind, encoded)]

\* A handler that keeps the mutex from its first get to its last.
HttpGetReturn_OneSection ==
    /\ pc[HttpThread] = "get_ret"
    /\ op[HttpThread] = "get"
    /\ gpio_control_mutex = HttpThread
    /\ gpio_control_mutex' =
          IF http.gets + 1 < Len(ResponseGets(http.kind, http.line))
          THEN HttpThread ELSE 0
    /\ hwlog' = <<>>
    /\ critical_logged' = FALSE
    /\ pre' = NoSnapshot
    /\ toggle_run' = RunOnReturn(HttpThread)
    /\ last_toggle' = OverlapOnReturn(HttpThread)
    /\ HttpAfterGet
    /\ UNCHANGED <<statics, CONFIG_GPIO_EMUL, pin, main_pc, boot_log, request_offset>>

\* The get returns (select_handler and toggle_handler do not look at its
\* result, status_handler reports LOW for a line whose get has failed).
HttpGetReturn ==
    /\ pc[HttpThread] = "get_ret"
    /\ op[HttpThread] = "get"
    /\ ReleaseMutex(HttpThread)
    /\ HttpAfterGet
    /\ UNCHANGED <<main_pc, boot_log, request_offset>>

\* response_ctx->final_chunk = true; request_offset = 0; return 0;  The
\* response is sent (status_handler has no request buffer).
HttpRespond ==
    /\ pc[HttpThread] = "h_resp"
    /\ Goto(HttpThread, "idle")
    /\ http' = NoRequest
    /\ request_offset' = [k \in Handlers |->
                             IF k = http.kind THEN 0 ELSE request_offset[k]]
    /\ UNCHANGED <<ctl_but_pc, main_pc, boot_log>>

\* A shell command calls the controller: jtag select0|select1 <0|1>,
\* jtag toggle0|toggle1, jtag status.
ShellCall(t) ==
    \E l \in Lines :
        \/ \E s \in BOOLEAN : CallSet(t, l, s)
        \/ CallToggle(t, l)
        \/ CallGet(t, l, FALSE)

NextProgram ==
    \/ MainCall
    \/ MainReturn
    \/ MainNetworkInit
    \/ MainHttpInit
    \/ \E ok \in BOOLEAN, l \in ReqLines, c \in ReqConnectors :
          HttpSelect(ok, l, c)
    \/ \E ok \in BOOLEAN, l \in ReqLines : HttpToggle(ok, l)
    \/ HttpStatus
    \/ HttpToggleUnlock
    \/ HttpToggleCheck
    \/ HttpSetReturn
    \/ HttpGet
    \/ HttpGetReturn
    \/ HttpRespond
    \/ \E t \in ShellThreads : ShellCall(t) \/ ToggleCheck(t) \/ Unlock(t)
    \/ \E t \in Procs : ControllerStep(t)

\* The program with shell commands, where every HTTP request arrives in one
\* chunk.
SpecProgram == InitProgram /\ [][NextProgram]_vars

\* The program without shell commands, where HTTP requests arrive in chunks
\* and can be aborted.
NextRequests ==
    \/ MainCall
    \/ MainReturn
    \/ MainNetworkInit
    \/ MainHttpInit
    \/ \E ok \in BOOLEAN, l \in ReqLines, c \in ReqConnectors :
          HttpSelect(ok, l, c)
    \/ \E ok \in BOOLEAN, l \in ReqLines : HttpToggle(ok, l)
    \/ HttpStatus
    \/ \E k \in Handlers, len \in ChunkLens : HttpData(k, len)
    \/ \E k \in Handlers : HttpAborted(k)
    \/ HttpToggleUnlock
    \/ HttpToggleCheck
    \/ HttpSetReturn
    \/ HttpGet
    \/ HttpGetReturn
    \/ HttpRespond
    \/ \E t \in {MainThread, HttpThread} : ControllerStep(t)

SpecRequests == InitProgram /\ [][NextRequests]_vars

----------------------------------------------------------------------------
\* Vocabulary of the properties.  A call is judged in the state in which it
\* is about to return (pc = "set_ret", "get_ret", "init_ret"): the caller
\* still owns the mutex, hwlog holds the driver calls of this call and pre
\* the statics and pins it found.

Last(s) == s[Len(s)]

\* The gpio_pin_set_dt calls of a log, in order.
Writes(log) == SelectSeq(log, LAMBDA e : e.call = "gpio_pin_set_dt")

\* A driver call that did what was asked: a write returned 0, a read
\* returned the expected level.
CallOk(e) ==
    CASE e.call = "gpio_pin_get_dt" -> e.res = e.val
      [] e.call = "gpio_is_ready_dt" -> e.res = 1
      [] OTHER -> e.res = 0

AllOk(log) == \A i \in 1..Len(log) : CallOk(log[i])

\* A call of gpio_control_set_select with valid arguments on an initialized
\* controller is about to return.
SetReturns(t) ==
    /\ pc[t] = "set_ret"
    /\ pre.init
    /\ select_line[t] \in Lines

\* The last driver call of the returning set was its rollback write.
RolledBack(t) ==
    /\ other_pin_cleared[t]
    /\ exit_path[t] \in {"target_write", "target_verify"}

PinsAre(a, b) == pin[0] = a /\ pin[1] = b

----------------------------------------------------------------------------
\* C1: in every reachable state, whatever the interleaving of
\* initialize/set/get/toggle calls of the threads and whatever driver call
\* fails, select0_state and select1_state are never both true.
C1_TrackedNeverBothHigh == ~(select0_state /\ select1_state)

\* A set that raised a line whose neighbour was HIGH is about to return
\* success.
C1_Witness ==
    \E t \in Threads :
        /\ SetReturns(t) /\ ret[t] = 0 /\ state[t]
        /\ PreTracked(OtherLine(select_line[t]))
        /\ Tracked(select_line[t])

\* C2: the levels driven on the two pins are never both HIGH, at any
\* instant, for every sequence of initialize/set/toggle calls and driver
\* failures.
C2_PinsNeverBothHigh == ~(pin[0] /\ pin[1])

\* C3: set(line, HIGH) with the other line tracked HIGH and no failing
\* driver call performs exactly two writes, the clear of the other line
\* (and its readback) strictly before the write of the requested line, and
\* ends with other = LOW, requested = HIGH.
C3_PreemptionOrder ==
    \A t \in Threads :
        ( /\ SetReturns(t)
          /\ state[t]
          /\ PreTracked(OtherLine(select_line[t]))
          /\ AllOk(hwlog) )
        => LET l == select_line[t]
               o == OtherLine(l)
           IN  /\ ret[t] = 0
               /\ Writes(hwlog) = << HwCall("gpio_pin_set_dt", o, 0, 0),
                                     HwCall("gpio_pin_set_dt", l, 1, 0) >>
               /\ hwlog = IF CONFIG_GPIO_EMUL
                          THEN Writes(hwlog)
                          ELSE << HwCall("gpio_pin_set_dt", o, 0, 0),
                                  HwCall("gpio_pin_get_dt", o, 0, 0),
                                  HwCall("gpio_pin_set_dt", l, 1, 0),
                                  HwCall("gpio_pin_get_dt", l, 1, 1) >>
               /\ ~Tracked(o)
               /\ Tracked(l)

\* From line0 = HIGH, line1 = LOW, set(1, HIGH) is about to return after
\* four successful driver calls (readback enabled).
C3_Witness ==
    \E t \in Threads :
        /\ SetReturns(t) /\ select_line[t] = 1 /\ state[t]
        /\ pre.s0 /\ ~pre.s1
        /\ AllOk(hwlog) /\ Len(hwlog) = 4

\* C4: whenever set(line, desired) returns success, the tracked state of
\* the requested line is desired; the other line's tracked state is false if
\* the pre-emption step ran and otherwise what it was before the call.
C4_SuccessPostcondition ==
    \A t \in Threads :
        (pc[t] = "set_ret" /\ ret[t] = 0)
        => LET l == select_line[t]
               o == OtherLine(l)
           IN  /\ l \in Lines
               /\ Tracked(l) = state[t]
               /\ Tracked(o) = IF other_pin_cleared[t] THEN FALSE
                               ELSE PreTracked(o)

\* set(line, LOW) returns success while the other line is, and stays, HIGH.
C4_Witness ==
    \E t \in Threads :
        /\ pc[t] = "set_ret" /\ ret[t] = 0 /\ ~state[t]
        /\ ~other_pin_cleared[t]
        /\ Tracked(OtherLine(select_line[t]))

\* C5: set(line, LOW), or set(line, HIGH) with the other line tracked LOW,
\* issues exactly one write, to the requested line, issues no driver call
\* for the other line and leaves the other line's tracked state and pin as
\* they were; on success the requested line is tracked at the desired state.
C5_NoPreemptionFrame ==
    \A t \in Threads :
        ( /\ SetReturns(t)
          /\ (~state[t] \/ ~PreTracked(OtherLine(select_line[t]))) )
        => LET l == select_line[t]
               o == OtherLine(l)
           IN  /\ Len(Writes(hwlog)) = 1
               /\ Writes(hwlog)[1].line = l
               /\ Writes(hwlog)[1].val = Level(state[t])
               /\ \A i \in 1..Len(hwlog) : hwlog[i].line # o
               /\ Tracked(o) = PreTracked(o)
               /\ pin[o] = pre.pin[o]
               /\ ~other_pin_cleared[t]
               /\ (ret[t] = 0 => Tracked(l) = state[t])

\* From LOW/LOW, set(0, HIGH) is about to return success: HIGH/LOW.
C5_Witness ==
    \E t \in Threads :
        /\ SetReturns(t) /\ select_line[t] = 0 /\ state[t] /\ ret[t] = 0
        /\ ~pre.s0 /\ ~pre.s1
        /\ select0_state /\ ~select1_state

\* C6: from line HIGH / other LOW in tracked and physical state (line0 =
\* HIGH, line1 = LOW and set(1, HIGH) in the claim), when set clears the
\* HIGH line and the write of the requested line then fails, the only
\* failing driver call of the call, set returns that write's error for the
\* requested line with tracked and physical state restored.
C6_RollbackAfterWriteFailure ==
    \A t \in Threads :
        LET l == select_line[t]
            o == OtherLine(l)
        IN  ( /\ SetReturns(t)
              /\ state[t]
              /\ PreTracked(o) /\ ~PreTracked(l)
              /\ pre.pin[o] /\ ~pre.pin[l]
              /\ other_pin_cleared[t]
              /\ exit_path[t] = "target_write"
              /\ Last(hwlog).res = 0 )
            => /\ Tracked(o) /\ ~Tracked(l)
               /\ pin = pre.pin
               /\ ret[t] < 0
               /\ \E i \in 1..Len(hwlog) :
                     hwlog[i] = HwCall("gpio_pin_set_dt", l, 1, ret[t])

\* The claim's instance: line0 = HIGH, line1 = LOW, set(1, HIGH), line0
\* cleared, the write of line1 failed, the rollback write succeeded.
C6_Witness ==
    \E t \in Threads :
        /\ SetReturns(t) /\ select_line[t] = 1 /\ state[t]
        /\ pre.s0 /\ ~pre.s1 /\ pre.pin[0] /\ ~pre.pin[1]
        /\ other_pin_cleared[t]
        /\ exit_path[t] = "target_write"
        /\ Last(hwlog).res = 0

\* C7: when the target write succeeds but its readback verification fails
\* after the pre-emption step cleared the other line, set issues the same
\* rollback write before it returns the verification failure (-EIO); when
\* that write succeeds the other line is back at its state before the
\* pre-emption step, tracked and physical, and the requested line's tracked
\* state is unchanged.
C7_RollbackAfterVerifyFailure ==
    \A t \in Threads :
        LET l == select_line[t]
            o == OtherLine(l)
        IN  ( /\ SetReturns(t)
              /\ other_pin_cleared[t]
              /\ exit_path[t] = "target_verify" )
            => /\ ret[t] = -EIO
               /\ Len(hwlog) = 5
               /\ ~CallOk(hwlog[4])
               /\ hwlog[4].call = "gpio_pin_get_dt" /\ hwlog[4].line = l
               /\ Last(hwlog).call = "gpio_pin_set_dt"
               /\ Last(hwlog).line = o
               /\ Last(hwlog).val = Level(PreTracked(o))
               /\ Tracked(l) = PreTracked(l)
               /\ (Last(hwlog).res = 0
                     => /\ Tracked(o) = PreTracked(o)
                        /\ pin[o] = PreTracked(o)
                        /\ (pre.pin[o] = PreTracked(o) => pin[o] = pre.pin[o]))

\* A set whose target readback failed after the pre-emption step returns
\* with the other line restored to HIGH.
C7_Witness ==
    \E t \in Threads :
        /\ SetReturns(t)
        /\ other_pin_cleared[t]
        /\ exit_path[t] = "target_verify"
        /\ Last(hwlog).res = 0
        /\ Tracked(OtherLine(select_line[t]))
        /\ pin[OtherLine(select_line[t])]

\* C8: when set's target step (write or verification) fails after the
\* pre-emption step and the rollback write fails too, set returns the
\* target step's failure and the pins are LOW/LOW or at the levels they had
\* before the pre-emption step, never HIGH/HIGH.
C8_FailedRollbackPins ==
    \A t \in Threads :
        ( /\ SetReturns(t)
          /\ RolledBack(t)
          /\ Last(hwlog).res < 0 )
        => /\ ret[t] < 0
           /\ (PinsAre(FALSE, FALSE) \/ pin = pre.pin)
           /\ ~PinsAre(TRUE, TRUE)

\* C9: set and get on an uninitialized controller, or with a line outside
\* {0, 1}, return -EINVAL at once: no driver call, initialized, both
\* tracked states and the pins unchanged, and get stores nothing to *state.
C9_InvalidCallsTouchNothing ==
    \A t \in Threads :
        ( /\ pc[t] \in {"set_ret", "get_ret"}
          /\ (~pre.init \/ select_line[t] \notin Lines) )
        => /\ ret[t] = -EINVAL
           /\ hwlog = <<>>
           /\ initialized = pre.init
           /\ select0_state = pre.s0
           /\ select1_state = pre.s1
           /\ pin = pre.pin
           /\ ~other_pin_cleared[t]
           /\ (pc[t] = "get_ret" => ~out_written[t])

\* set(line, HIGH) on a controller that is not initialized is about to
\* return.
C9_Witness ==
    \E t \in Threads :
        /\ pc[t] = "set_ret" /\ ~pre.init
        /\ select_line[t] \in Lines /\ state[t]

\* C10 as claimed: a set or get with an out-of-range line (and a non-NULL
\* state pointer) fails on the invalid-line check, not on the
\* not-initialized check, whether or not the controller is initialized, and
\* issues no driver call.
C10_InvalidLineRegardless ==
    \A t \in Threads :
        ( /\ pc[t] \in {"set_ret", "get_ret"}
          /\ select_line[t] \notin Lines
          /\ ~state_null[t] )
        => /\ exit_path[t] = "invalid_line"
           /\ hwlog = <<>>

\* C10 amended: a set or get with an out-of-range line (and a non-NULL
\* state pointer) returns -EINVAL without any driver call, initialized or
\* not; it fails on the invalid-line check only when the controller is
\* initialized, and on the not-initialized check, which comes first, when
\* it is not.  Both checks return the same -EINVAL.
C10_InvalidLineAfterInitCheck ==
    \A t \in Threads :
        ( /\ pc[t] \in {"set_ret", "get_ret"}
          /\ select_line[t] \notin Lines
          /\ ~state_null[t] )
        => /\ ret[t] = -EINVAL
           /\ hwlog = <<>>
           /\ exit_path[t] = IF pre.init THEN "invalid_line"
                             ELSE "not_initialized"

\* set with an out-of-range line on an uninitialized controller is about to
\* return.
C10_Witness ==
    \E t \in Threads :
        /\ pc[t] = "set_ret"
        /\ select_line[t] \notin Lines
        /\ ~pre.init

----------------------------------------------------------------------------
\* A thread is inside the body of gpio_control_init, gpio_control_set_select
\* or gpio_control_get_select: between SCOPED_LOCK and the return.
InBody(t) == pc[t] \notin {"idle", "tg_check", "h_get", "h_resp"}

\* A set has cleared the other line and has neither raised the requested
\* line nor finished its rollback.
MidSet(t) ==
    /\ other_pin_cleared[t]
    /\ pc[t] \in {"set_tgt", "set_tgt_ver", "set_rb_w", "set_rb_v"}

\* The gpio_pin_configure_dt calls of a log, in order.
Configures(log) == SelectSeq(log, LAMBDA e : e.call = "gpio_pin_configure_dt")

\* C11: a get that succeeds returns the tracked state of the line, issues no
\* driver call, and returns while no other thread is inside a set: never the
\* intermediate state between the clear of one line and the raise or the
\* rollback.
C11_GetReadsSettledState ==
    \A t \in Threads :
        (pc[t] = "get_ret" /\ ret[t] = 0)
        => /\ pre.init
           /\ select_line[t] \in Lines
           /\ out_written[t]
           /\ current_state[t] = Tracked(select_line[t])
           /\ current_state[t] = PreTracked(select_line[t])
           /\ hwlog = <<>>
           /\ \A u \in Threads : u # t => ~InBody(u)
           /\ \A u \in Threads : ~MidSet(u)

\* A get returns HIGH while another thread is between the get and the set
\* of its toggle.
C11_Witness ==
    \E t, u \in Threads :
        /\ pc[t] = "get_ret" /\ ret[t] = 0 /\ current_state[t]
        /\ pc[u] = "tg_check"

\* C12: at most one caller at a time is inside the body of initialize, set
\* or get, and it owns the mutex from the first to the last statement of
\* the body; sets on line 0 and line 1 exclude each other and every get.
C12_OneCallerInBody ==
    \A t, u \in Threads :
        InBody(t) => /\ gpio_control_mutex = t
                     /\ (InBody(u) => u = t)

\* A set on line 0 is in the middle of its write sequence while a toggle of
\* line 1 has done its get and waits to enter its set.
C12_Witness ==
    \E t, u \in Threads :
        /\ pc[t] = "set_tgt_ver" /\ select_line[t] = 0
        /\ pc[u] = "tg_check" /\ ret[u] = 0 /\ select_line[u] = 1

\* C13: the mutex is released on every exit path of initialize, set and
\* get, early error returns included: a caller that is not inside one of
\* them does not own the mutex.
C13_ReleasedOnEveryReturn ==
    \A t \in Threads : ~InBody(t) => gpio_control_mutex # t

\* The get of a toggle has returned an error and the mutex is free.
C13_Witness ==
    \E t \in Threads :
        /\ pc[t] = "tg_check" /\ ret[t] < 0
        /\ gpio_control_mutex = 0

\* Positions inside gpio_control_set_select before its return statement.
SetSequence == {"set_chk", "set_clr", "set_clr_ver", "set_tgt",
                "set_tgt_ver", "set_rb_w", "set_rb_v"}

\* C14: under fair scheduling every call that has been entered returns (a
\* toggle that waits for the mutex of its set included), and a set that has
\* the mutex goes from step to step of its sequence up to its return
\* statement while no other thread enters a locked function.
C14_CallsReturnSetRunsToCompletion ==
    /\ \A t \in Threads : (pc[t] # "idle") ~> (pc[t] = "idle")
    /\ \A t \in Threads : (pc[t] \in SetSequence) ~> (pc[t] = "set_ret")
    /\ [][ \A t \in Threads :
             (pc[t] \in SetSequence)
             => /\ pc'[t] \in SetSequence \cup {"set_ret"}
                /\ gpio_control_mutex' = t
                /\ \A u \in Threads : u # t => ~InBody(u)' ]_vars

\* A toggle has done its get and waits for the mutex while a set of another
\* thread, having cleared the other line, is before its target write.
C14_Witness ==
    \E t, u \in Threads :
        /\ pc[t] = "tg_check" /\ ret[t] = 0
        /\ pc[u] = "set_tgt" /\ other_pin_cleared[u]
        /\ gpio_control_mutex = u

\* C15: an initialize call on an initialized controller returns success at
\* once: no driver call, and initialized, the tracked states and the pins
\* are what they were.
C15_RepeatInitIsNoOp ==
    \A t \in Threads :
        (pc[t] = "init_ret" /\ pre.init)
        => /\ ret[t] = 0
           /\ exit_path[t] = "already_initialized"
           /\ hwlog = <<>>
           /\ initialized
           /\ select0_state = pre.s0
           /\ select1_state = pre.s1
           /\ pin = pre.pin

\* A repeated initialize returns on a controller that is at LOW/LOW.
C15_Witness ==
    \E t \in Threads :
        /\ pc[t] = "init_ret" /\ pre.init /\ ret[t] = 0
        /\ ~select0_state /\ ~select1_state

\* C16: when initialize runs on an uninitialized controller and returns
\* success, both lines were configured as outputs driven LOW (line 0, then
\* line 1), both pins are LOW, both tracked states are false and
\* initialized is true.
C16_InitPostcondition ==
    \A t \in Threads :
        (pc[t] = "init_ret" /\ ~pre.init /\ ret[t] = 0)
        => /\ initialized
           /\ ~select0_state /\ ~select1_state
           /\ PinsAre(FALSE, FALSE)
           /\ Configures(hwlog) =
                 << HwCall("gpio_pin_configure_dt", 0, 0, 0),
                    HwCall("gpio_pin_configure_dt", 1, 0, 0) >>
           /\ AllOk(hwlog)

\* The first initialize is about to return success.
C16_Witness ==
    \E t \in Threads :
        /\ pc[t] = "init_ret" /\ ~pre.init /\ ret[t] = 0 /\ initialized

C18_FailedInitStaysUninitialized ==
    \A t \in Threads :
        /\ (pc[t] = "init_ret" /\ ret[t] < 0)
           => /\ ~pre.init
              /\ ~initialized
              /\ select0_state = pre.s0
              /\ select1_state = pre.s1
              /\ exit_path[t] \in {"not_ready", "configure", "verify"}
              /\ (exit_path[t] = "not_ready" <=> ret[t] = -ENODEV)
        /\ (pc[t] \in {"set_ret", "get_ret"} /\ ~initialized)
           => ret[t] = -EINVAL

\* initialize fails on the readback of line 1, after both lines were
\* configured.
C18_Witness ==
    \E t \in Threads :
        /\ pc[t] = "init_ret" /\ ret[t] < 0
        /\ exit_path[t] = "verify"
        /\ Len(Configures(hwlog)) = 2

\* In this step thread t gets a successful readback of value v on line l,
\* right after its successful write of v to l: the verification of the
\* pre-emption clear (line 220) or of the target write (line 248).
VerifiedWrite(t, l, v) ==
    \/ /\ pc[t] = "set_clr_ver" /\ pc'[t] = "set_tgt"
       /\ l = OtherLine(select_line[t]) /\ v = FALSE
    \/ /\ pc[t] = "set_tgt_ver" /\ pc'[t] = "set_ret" /\ ret'[t] = 0
       /\ l = select_line[t] /\ v = state[t]

\* C19: on the build with readback, the tracked state of a line of an
\* initialized controller is the last value written and verified on that
\* line: it is LOW/LOW when the controller becomes initialized, a verified
\* write of v makes it v, and no other step changes it; and a set that
\* returns an error leaves the tracked state of the requested line at the
\* value it had before the call.
C19_TrackedIsLastVerified ==
    [][ ~CONFIG_GPIO_EMUL =>
        /\ (~initialized /\ initialized') =>
               (~select0_state' /\ ~select1_state')
        /\ initialized =>
               \A l \in Lines :
                   IF \E t \in Threads, v \in BOOLEAN : VerifiedWrite(t, l, v)
                   THEN \E t \in Threads :
                            VerifiedWrite(t, l, IF l = 0 THEN select0_state'
                                                         ELSE select1_state')
                   ELSE (IF l = 0 THEN select0_state' ELSE select1_state')
                            = Tracked(l)
        /\ \A t \in Threads :
               (pc'[t] = "set_ret" /\ ret'[t] < 0 /\ select_line'[t] \in Lines
                   /\ pre'.init)
               => (IF select_line'[t] = 0 THEN select0_state'
                                           ELSE select1_state')
                      = (IF select_line'[t] = 0 THEN pre'.s0 ELSE pre'.s1)
      ]_vars

\* C20: a toggle that enters its set with no call of another caller since
\* its get, and whose driver calls all succeed, returns success with the
\* tracked state of the line inverted; when it is the second of two
\* consecutive successful toggles of the line with no other call in between,
\* the tracked state is back at its value before the first.
C20_ToggleInvertsAndTwiceRestores ==
    \A t \in Threads :
        (pc[t] = "set_ret" /\ op[t] = "toggle" /\ toggle_run.t = t
            /\ AllOk(hwlog))
        => /\ ret[t] = 0
           /\ toggle_run.line = select_line[t]
           /\ Tracked(select_line[t]) = ~current_state[t]
           /\ Tracked(select_line[t]) =
                  (IF toggle_run.done = 0 THEN ~toggle_run.before
                                          ELSE toggle_run.before)

\* The second of two consecutive toggles of a line that was LOW is about to
\* return success, the line being LOW again.
C20_Witness ==
    \E t \in Threads :
        /\ pc[t] = "set_ret" /\ op[t] = "toggle" /\ ret[t] = 0
        /\ toggle_run.t = t /\ toggle_run.done = 1
        /\ ~toggle_run.before
        /\ ~Tracked(select_line[t])

\* C21: a toggle does not own the mutex between its get and its set, so
\* that whenever no thread is inside a locked function another caller can
\* enter a set on the toggled line; and the set of the toggle writes the
\* inverse of the value its get has read, whatever the tracked state has
\* become since.
C21_ToggleIsTwoSections ==
    \A t \in Threads :
        /\ (pc[t] = "tg_check" /\ ret[t] = 0)
           => /\ gpio_control_mutex # t
              /\ \A u \in Threads :
                    (pc[u] = "idle" /\ gpio_control_mutex = 0)
                    => ENABLED CallSet(u, select_line[t], ~current_state[t])
        /\ (op[t] = "toggle" /\ pc[t] \in SetSequence \cup {"set_ret"})
           => state[t] = ~current_state[t]

\* A toggle returns success after writing the value the line already had
\* when its set took the mutex: a set of another caller came in between.
C21_Witness ==
    \E t \in Threads :
        /\ pc[t] = "set_ret" /\ op[t] = "toggle" /\ ret[t] = 0
        /\ state[t] = PreTracked(select_line[t])
        /\ Tracked(select_line[t]) = PreTracked(select_line[t])
        /\ current_state[t] # PreTracked(select_line[t])

\* The controller calls of the boot sequence, in order.
BootCalls == <<[op |-> "init", line |-> 0, state |-> FALSE],
               [op |-> "set", line |-> 0, state |-> FALSE],
               [op |-> "set", line |-> 1, state |-> FALSE]>>

\* The HTTP thread is inside a request handler.
InHandler == http # NoRequest \/ pc[HttpThread] # "idle"

C23_HighIffConnectorOne ==
    (http.kind = "select" /\ pc[HttpThread] \in SetSequence \cup {"set_ret"})
        => /\ op[HttpThread] = "set"
           /\ select_line[HttpThread] = http.line
           /\ state[HttpThread] = (http.connector = 1)

\* The request the handler is taking in has a line other than 0 and 1, or
\* (select) a connector other than 0 and 1.
InvalidRequest(req) ==
    \/ req.line \notin {0, 1}
    \/ req.kind = "select" /\ req.connector \notin {0, 1}

\* C24: a handler that takes in a request with an invalid line or connector
\* answers 400 and does not call the controller; a handler whose set or
\* toggle returns a failure answers 500; and a handler answers 200 only
\* after its set or toggle has succeeded.
C24_StatusMapping ==
    [][/\ (pc[HttpThread] = "idle" /\ http'.kind # "none"
              /\ InvalidRequest(http'))
          => /\ pc'[HttpThread] = "h_resp"
             /\ http'.status = HTTP_400_BAD_REQUEST
       /\ (http.kind # "none" /\ pc[HttpThread] \in {"set_ret", "tg_check"}
              /\ ret[HttpThread] < 0 /\ pc'[HttpThread] # pc[HttpThread])
          => /\ pc'[HttpThread] = "h_resp"
             /\ http'.status = HTTP_500_INTERNAL_SERVER_ERROR
       /\ (pc'[HttpThread] = "h_resp" /\ pc[HttpThread] # "h_resp"
              /\ http'.kind \in {"select", "toggle"}
              /\ http'.status = HTTP_200_OK)
          => /\ pc[HttpThread] = "get_ret"
             /\ http.gets + 1 = Len(ResponseGets(http.kind, http.line))
      ]_vars

\* The kinds of failure of gpio_control_set_select.
FailureKinds == {"not-initialized", "invalid-line", "hardware-write-failed",
                 "verification-failed"}

\* The kind of failure of the return statement thread t has taken.
FailureKind(t) ==
    CASE exit_path[t] = "not_initialized" -> "not-initialized"
      [] exit_path[t] = "invalid_line" -> "invalid-line"
      [] exit_path[t] \in {"clear_write", "target_write"} ->
             "hardware-write-failed"
      [] exit_path[t] \in {"clear_verify", "target_verify"} ->
             "verification-failed"
      [] OTHER -> "none"

\* The line the failure is about: the other line for a failed clear, the
\* requested line otherwise.
OffendingLine(t) ==
    IF exit_path[t] \in {"clear_write", "clear_verify"}
    THEN OtherLine(select_line[t])
    ELSE select_line[t]

\* The values gpio_control_set_select returns for a failure of kind k about
\* line l: -EINVAL at lines 175 and 195, the errno of gpio_pin_set_dt at
\* lines 214 and 244, the -EIO of verify_gpio_state at lines 222 and 261.
\* None of them depends on the line.
SetFailureCodes(k, l) ==
    CASE k = "not-initialized" -> {-EINVAL}
      [] k = "invalid-line" -> {-EINVAL}
      [] k = "hardware-write-failed" -> {r \in WriteResults : r < 0}
      [] k = "verification-failed" -> {-EIO}
      [] OTHER -> {}

\* C25: the value a failing set returns is one the code returns for the
\* kind and line of that failure, and for no other kind and no other line,
\* so that the caller can tell kind and line from the value alone.
C25_FailureIdentifiesKindAndLine ==
    \A t \in Threads :
        (pc[t] = "set_ret" /\ ret[t] < 0)
        => /\ FailureKind(t) \in FailureKinds
           /\ ret[t] \in SetFailureCodes(FailureKind(t), OffendingLine(t))
           /\ \A k \in FailureKinds, l \in LineArgs :
                 ret[t] \in SetFailureCodes(k, l)
                 => (k = FailureKind(t) /\ l = OffendingLine(t))

\* The pre-emption clear of the set that is returning has failed: its write
\* returned an error, or the readback after it did not return LOW.
ClearFailed(t) ==
    /\ state[t] /\ PreTracked(OtherLine(select_line[t]))
    /\ Len(hwlog) >= 1
    /\ hwlog[1] \in {HwCall("gpio_pin_set_dt", OtherLine(select_line[t]), 0, r)
                        : r \in WriteResults}
    /\ \/ hwlog[1].res < 0
       \/ /\ Len(hwlog) >= 2
          /\ hwlog[2].call = "gpio_pin_get_dt"
          /\ ~CallOk(hwlog[2])

\* C26: when the pre-emption clear fails, set returns the error at once:
\* both tracked states are those before the call, the failed clear (and its
\* readback) is the only driver call, so there is no rollback write and no
\* write of the requested line.
C26_FailedClearReturnsAtOnce ==
    \A t \in Threads :
        (SetReturns(t) /\ ClearFailed(t))
        => /\ ret[t] < 0
           /\ exit_path[t] \in {"clear_write", "clear_verify"}
           /\ select0_state = pre.s0
           /\ select1_state = pre.s1
           /\ ~other_pin_cleared[t]
           /\ Len(Writes(hwlog)) = 1
           /\ Len(hwlog) = (IF hwlog[1].res < 0 THEN 1 ELSE 2)
           /\ \A i \in 1..Len(hwlog) : hwlog[i].line # select_line[t]

\* A set returns after the readback of its pre-emption clear has failed.
C26_Witness ==
    \E t \in Threads :
        /\ SetReturns(t) /\ ClearFailed(t)
        /\ exit_path[t] = "clear_verify"

\* C27: on the build with readback, a returning set that has rolled back and
\* has restored the tracked state of the other line to HIGH has, as its last
\* driver call, a readback of the other line that returned HIGH.
C27_RollbackIsWriteThenVerify ==
    ~CONFIG_GPIO_EMUL =>
        \A t \in Threads :
            (SetReturns(t) /\ RolledBack(t)
                /\ Tracked(OtherLine(select_line[t])))
            => /\ Last(hwlog).call = "gpio_pin_get_dt"
               /\ Last(hwlog).line = OtherLine(select_line[t])
               /\ Last(hwlog).val = 1
               /\ CallOk(Last(hwlog))

\* C28: when the rollback write of a returning set has failed, after a
\* failed target write as after a failed target verification, the CRITICAL
\* rollback-failed message has been logged.
C28_FailedRollbackIsRecorded ==
    \A t \in Threads :
        (SetReturns(t) /\ RolledBack(t)
            /\ Last(hwlog).call = "gpio_pin_set_dt" /\ Last(hwlog).res < 0)
        => critical_logged

\* The gpio_pin_set_dt calls of a log on line l, in order.
WritesOn(log, l) ==
    SelectSeq(log, LAMBDA e : e.call = "gpio_pin_set_dt" /\ e.line = l)

\* C29: within one call of set the requested line is written at most once
\* and the other line at most twice, a clear (LOW) followed by the rollback
\* (HIGH), and no line is written again after a write to it has failed.
C29_NoWriteRetry ==
    \A t \in Threads :
        (pc[t] \in SetSequence \cup {"set_ret"} /\ select_line[t] \in Lines)
        => LET mine == WritesOn(hwlog, select_line[t])
               other == WritesOn(hwlog, OtherLine(select_line[t]))
           IN /\ Len(mine) <= 1
              /\ Len(other) <= 2
              /\ Len(other) >= 1 => other[1].val = 0
              /\ Len(other) = 2 => (other[1].res = 0 /\ other[2].val = 1)
              /\ Len(mine) + Len(other) = Len(Writes(hwlog))
              /\ \A l \in Lines :
                    \A i \in 1..(Len(WritesOn(hwlog, l)) - 1) :
                        WritesOn(hwlog, l)[i].res = 0

\* A set returns after three writes: the clear, the failed target write and
\* a failed rollback write.
C29_Witness ==
    \E t \in Threads :
        /\ SetReturns(t)
        /\ Len(Writes(hwlog)) = 3
        /\ Writes(hwlog)[2].res < 0
        /\ Writes(hwlog)[3].res < 0

\* C30: no step makes initialized false once it is true.
C30_InitializedIsStable == [][initialized => initialized']_vars

\* The controller is initialized and a call has just failed.
C30_Witness ==
    \E t \in Threads :
        /\ initialized
        /\ pc[t] \in {"set_ret", "get_ret"} /\ ret[t] < 0

\* The log holds a readback.
Reads(log) == SelectSeq(log, LAMBDA e : e.call = "gpio_pin_get_dt")

\* C31: in the build with CONFIG_GPIO_EMUL, where verify_gpio_state returns
\* 0 without reading the pin, the tracked states are never both true and
\* the pins are never both driven HIGH, whatever calls are made and
\* whatever write fails; and no call reads a pin back.
C31_EmulatedNeverBothHigh ==
    CONFIG_GPIO_EMUL
        => /\ ~(select0_state /\ select1_state)
           /\ ~(pin[0] /\ pin[1])
           /\ Reads(hwlog) = <<>>

\* Emulated build: a set that cleared the other line returns the error of
\* its failed target write after the rollback write.
C31_Witness ==
    \E t \in Threads :
        /\ CONFIG_GPIO_EMUL
        /\ SetReturns(t) /\ RolledBack(t)
        /\ ret[t] < 0
        /\ Len(hwlog) = 3
        /\ hwlog[2].res < 0

\* C32: gpio_control_toggle_select is its get followed by its set.  The get
\* makes no driver call and fails only with -EINVAL, on an uninitialized
\* controller or a line outside {0, 1}; after a failed get the toggle
\* returns to its caller with that error, taking no mutex and leaving
\* statics, pins and driver-call log alone; after a successful get it calls
\* set(select_line, !current_state), and it returns from nowhere else than
\* the return of that set, whose result is its own.
C32_ToggleIsGetThenSet ==
    [][\A t \in Threads :
          op[t] = "toggle"
          => /\ pc[t] = "get_ret"
                => /\ hwlog = <<>>
                   /\ ret[t] < 0
                      => /\ ret[t] = -EINVAL
                         /\ ~pre.init \/ select_line[t] \notin Lines
             /\ (pc[t] = "tg_check" /\ pc'[t] # "tg_check")
                => IF ret[t] < 0
                   THEN /\ pc'[t] = "idle"
                        /\ UNCHANGED <<statics, pin, hwlog, gpio_control_mutex>>
                   ELSE /\ pc'[t] = "set_chk"
                        /\ gpio_control_mutex' = t
                        /\ op'[t] = "toggle"
                        /\ select_line'[t] = select_line[t]
                        /\ state'[t] = ~current_state[t]
             /\ (pc[t] # "idle" /\ pc'[t] = "idle")
                => \/ pc[t] = "tg_check" /\ ret[t] < 0
                   \/ pc[t] = "set_ret"
      ]_vars

\* The get of a toggle of line 2 has failed on the initialized controller
\* and the toggle is about to return the error.
C32_Witness ==
    \E t \in Threads :
        /\ op[t] = "toggle" /\ pc[t] = "tg_check"
        /\ initialized
        /\ select_line[t] \notin Lines
        /\ ret[t] = -EINVAL

\* C33: a set(line, s) that finds the line already tracked at s starts with
\* the gpio_pin_set_dt of that line at level s, follows it, when it
\* succeeded in the readback build, with the readback of the line, and on
\* success leaves both tracked states as it found them; every successful
\* set leaves the line tracked at s, so that a second identical set finds
\* it so and changes nothing.
C33_SetOfSameValueStillWrites ==
    \A t \in Threads :
        /\ (SetReturns(t) /\ ret[t] = 0) => Tracked(select_line[t]) = state[t]
        /\ (SetReturns(t) /\ PreTracked(select_line[t]) = state[t])
           => /\ hwlog # <<>>
              /\ hwlog[1] = HwCall("gpio_pin_set_dt", select_line[t],
                                   Level(state[t]), hwlog[1].res)
              /\ hwlog[1].res < 0 => Len(hwlog) = 1 /\ ret[t] = hwlog[1].res
              /\ (hwlog[1].res = 0 /\ CONFIG_GPIO_EMUL) => Len(hwlog) = 1
              /\ (hwlog[1].res = 0 /\ ~CONFIG_GPIO_EMUL)
                 => /\ Len(hwlog) = 2
                    /\ hwlog[2] = HwCall("gpio_pin_get_dt", select_line[t],
                                         Level(state[t]), hwlog[2].res)
              /\ ret[t] = 0
                 => select0_state = pre.s0 /\ select1_state = pre.s1

\* set(line, HIGH) on a line that was tracked HIGH returns success after
\* its write and its readback.
C33_Witness ==
    \E t \in Threads :
        /\ SetReturns(t) /\ ret[t] = 0 /\ op[t] = "set"
        /\ state[t] /\ PreTracked(select_line[t])
        /\ Len(hwlog) = 2

\* Thread t is in a set that has decided whether to clear the other line.
PastSetCheck(t) ==
    pc[t] \in {"set_clr", "set_clr_ver", "set_tgt", "set_tgt_ver", "set_rb_w",
               "set_rb_v"}

\* The set of thread t has taken the pre-emption branch.
Preempting(t) ==
    pc[t] \in {"set_clr", "set_clr_ver"} \/ other_pin_cleared[t]

\* C36: a set that returns because the readback of its target write failed
\* has written the requested line once, successfully, and not again: the
\* pin is at the requested level and the tracked state of the line is what
\* it was at entry.  And a set takes the pre-emption branch exactly when it
\* asks for HIGH and the other line was tracked HIGH at entry, whatever the
\* level of the other pin.
C36_FailedVerifyLeavesPinDriven ==
    \A t \in Threads :
        /\ (SetReturns(t) /\ exit_path[t] = "target_verify")
           => /\ ret[t] = -EIO
              /\ Len(WritesOn(hwlog, select_line[t])) = 1
              /\ WritesOn(hwlog, select_line[t])[1] =
                     HwCall("gpio_pin_set_dt", select_line[t],
                            Level(state[t]), 0)
              /\ pin[select_line[t]] = state[t]
              /\ Tracked(select_line[t]) = PreTracked(select_line[t])
        /\ PastSetCheck(t)
           => (Preempting(t)
                  <=> (state[t] /\ PreTracked(OtherLine(select_line[t]))))

\* set(line, HIGH) on a line tracked LOW returns the verification error: the
\* pin is HIGH and the line is still tracked LOW.
C36_Witness ==
    \E t \in Threads :
        /\ SetReturns(t) /\ exit_path[t] = "target_verify"
        /\ state[t]
        /\ pin[select_line[t]]
        /\ ~Tracked(select_line[t])

\* The set of thread t returns after a rollback whose write has failed.
RollbackFailed(t) ==
    /\ SetReturns(t)
    /\ RolledBack(t)
    /\ Last(Writes(hwlog)).res < 0

\* C37: a set that cleared the other line and whose rollback write failed
\* returns the error of its target step, with the other line, tracked true
\* at entry, now tracked false, and the requested line tracked as at entry.
C37_FailedRollbackChangesTracked ==
    \A t \in Threads :
        RollbackFailed(t)
        => /\ ret[t] < 0
           /\ Len(Writes(hwlog)) = 3
           /\ PreTracked(OtherLine(select_line[t]))
           /\ ~Tracked(OtherLine(select_line[t]))
           /\ Tracked(select_line[t]) = PreTracked(select_line[t])

\* The target readback has failed after a pre-emption and the rollback write
\* has failed too: the tracked states are LOW/LOW at a failing return.
C37_Witness ==
    \E t \in Threads :
        /\ RollbackFailed(t)
        /\ exit_path[t] = "target_verify"
        /\ ~select0_state /\ ~select1_state

\* Thread t is in the part of gpio_control_init that follows the early
\* return: readiness checks, configuration and verification of both lines.
Configuring(t) ==
    pc[t] \in {"init_rdy0", "init_rdy1", "init_cfg0", "init_cfg1",
               "init_ver0", "init_ver1"}

\* C38: initialize calls of several threads are serialized by the mutex and
\* only a caller that finds initialized false configures: a thread in the
\* configuration part of initialize owns the mutex, found initialized false
\* when it took it, and initialized is still false; when all its driver
\* calls succeed it configures line 0 and line 1 once each and returns
\* success with initialized true; every caller that takes the mutex with
\* initialized true returns success with no driver call.
C38_ConcurrentInitConfiguresOnce ==
    \A t \in Threads :
        /\ Configuring(t)
           => /\ gpio_control_mutex = t
              /\ ~pre.init /\ ~initialized
              /\ \A u \in Threads \ {t} : ~InBody(u)
        /\ (pc[t] = "init_ret" /\ ~pre.init /\ AllOk(hwlog))
           => /\ ret[t] = 0 /\ initialized
              /\ Len(Configures(hwlog)) = 2
              /\ Configures(hwlog)[1].line = 0
              /\ Configures(hwlog)[2].line = 1
        /\ (op[t] = "init" /\ pc[t] \in {"init_chk", "init_ret"} /\ pre.init)
           => /\ gpio_control_mutex = t
              /\ initialized
              /\ hwlog = <<>>
              /\ pc[t] = "init_ret" => ret[t] = 0

\* A second caller of initialize has the mutex and is about to test
\* initialized, which the first caller has set; the lines are as the first
\* caller configured them.
C38_Witness ==
    \E t \in Threads :
        /\ op[t] = "init" /\ pc[t] = "init_chk"
        /\ gpio_control_mutex = t
        /\ initialized
        /\ PinsAre(FALSE, FALSE)
        /\ ~select0_state /\ ~select1_state

\* C35: the tracked states are never both true, each value a handler
\* reports is the tracked state of the line at the return of its own get,
\* and between two gets of a handler the HTTP thread does not own the
\* mutex: when the mutex is free a shell command can enter a set then.
C35_ReportedPairIsTwoReads ==
    /\ ~(select0_state /\ select1_state)
    /\ (pc[HttpThread] = "get_ret" /\ op[HttpThread] = "get"
           /\ ret[HttpThread] = 0)
       => current_state[HttpThread] = Tracked(select_line[HttpThread])
    /\ pc[HttpThread] = "h_get"
       => /\ gpio_control_mutex # HttpThread
          /\ \A u \in ShellThreads :
                (gpio_control_mutex = 0 /\ pc[u] = "idle")
                    => ENABLED CallSet(u, 1, TRUE)

\* select_handler answers 200 with select0 and select1 both true.
C35_Witness ==
    /\ pc[HttpThread] = "h_resp"
    /\ http.kind = "select"
    /\ http.status = HTTP_200_OK
    /\ http.resp[0] /\ http.resp[1]

\* The set of the toggle of thread u is about to return, and it follows the
\* successful toggle of the same line by another thread that had read the
\* same value while this toggle was between its get and its set.
SecondOfOverlappingToggles(u) ==
    /\ pc[u] = "set_ret" /\ op[u] = "toggle"
    /\ last_toggle.t \notin {0, u}

\* C34: when two toggles of one line have both read the value v before
\* either has written, the second to write finds the line at !v, written by
\* the first, and writes !v again: if it succeeds too the line is at !v,
\* inverted once from the value both calls read and not back at it.
C34_OverlappingTogglesInvertOnce ==
    \A u \in Threads :
        SecondOfOverlappingToggles(u)
        => /\ last_toggle.line = select_line[u]
           /\ last_toggle.read = current_state[u]
           /\ PreTracked(select_line[u]) = ~last_toggle.read
           /\ state[u] = ~last_toggle.read
           /\ ret[u] = 0
              => /\ Tracked(select_line[u]) = ~last_toggle.read
                 /\ Tracked(select_line[u]) = PreTracked(select_line[u])

\* Both toggles have succeeded and the line is inverted once.
C34_Witness ==
    \E u \in Threads :
        /\ SecondOfOverlappingToggles(u)
        /\ ret[u] = 0
        /\ Tracked(select_line[u]) = ~current_state[u]

\* C39: the request_offset of select_handler and of toggle_handler is never
\* above sizeof(request_buffer), whatever the lengths of the chunks: a step
\* makes it grow, within the buffer, or sets it to 0; it is 0 after the
\* handler has processed a final chunk and after the handler was called
\* with HTTP_SERVER_DATA_ABORTED.
C39_RequestOffsetBounded ==
    [][\A k \in Handlers :
          /\ request_offset[k] \in 0..REQUEST_BUFFER_SIZE
          /\ request_offset'[k] \in 0..REQUEST_BUFFER_SIZE
          /\ request_offset'[k] >= request_offset[k] \/ request_offset'[k] = 0
          /\ (pc[HttpThread] = "h_resp" /\ pc'[HttpThread] = "idle"
                 /\ http.kind = k)
             => request_offset'[k] = 0
          /\ HttpAborted(k) => request_offset'[k] = 0
      ]_vars

\* A handler processes the final chunk of a request whose data has filled
\* its buffer; the other handler holds a part of a request.
C39_Witness ==
    \E k \in Handlers :
        /\ pc[HttpThread] = "h_resp"
        /\ http.kind = k
        /\ request_offset[k] = REQUEST_BUFFER_SIZE
        /\ \E j \in Handlers \ {k} :
              request_offset[j] \in 1..(REQUEST_BUFFER_SIZE - 1)

====
